---------------------------- MODULE Spec2Model ----------------------------
(***************************************************************************)
(* Model of the review acquisition and summarisation pipeline of           *)
(* IsTheWifiGood: the scroll-pagination collectors of scripts/scraper.ts   *)
(* and scripts/optimized-scraper.ts, the per-hotel crawl and the batch     *)
(* drivers (scraper.ts, complete-pipeline.ts, singapore-data-collection.ts)*)
(* and the AI summariser of scripts/ai-processor.ts.                       *)
(*                                                                         *)
(* Text is a sequence of one-character strings, so that trimming,          *)
(* whitespace collapsing, character stripping and keyword search are       *)
(* computed the way the JavaScript does.                                   *)
(***************************************************************************)
EXTENDS Integers, Sequences, FiniteSets, TLC

VARIABLES
  \* ---- searchWiFiReviews / searchOptimizedWiFiReviews (one call) ----
  page,             \* the review elements currently in the DOM, in order
  reviews,          \* const reviews: WiFiReview[]
  scrollAttempts,   \* let scrollAttempts
  lastReviewCount,  \* let lastReviewCount
  spc,              \* position in the call: "idle","start","loop","returned","threw"
  result,           \* the list the call returned
  clock,            \* the clock at the start of the call
  stalls,           \* history: consecutive cycles in which the count did not change
  pageGrew,         \* history: the element count increased after it was first counted
  \* ---- one run of a driver script ----
  program,          \* which script runs: "scraper","pipeline","singapore","optimizedTest"
  apiKey,           \* whether process.env.OPENAI_API_KEY is a non-empty string
  batchSize,        \* processAllHotels(batchSize)
  mpc,              \* position in main()
  browser,          \* this.browser: "null", "launched" or "closed"
  crawl,            \* per hotel: the pending scrapeHotelWiFiReviews call
  hotelIdx,         \* position of the for loop in the hotel list
  bpc,              \* position in scrapeAllHotels / processAllHotels / runFullCollection
  batchNumber,      \* let batchNumber
  rateLimiter,      \* successCount and failureCount of the RateLimiter
  stats,            \* this.stats of the pipeline and of the collector
  failed,           \* history: hotels of this batch whose handling failed
  stageLog,         \* history: what has settled for the current hotel, in order
  \* ---- processReviews, called on one WiFiReviewProcessor ----
  aiReviews,        \* reviews.length of the call
  aiSpeeds,         \* extracted_speed of each review of the call, 0 for none
  apc,              \* position in the call
  attempt,          \* let attempt of retry()
  response,         \* what the chat completion resolved to
  aiReturn,         \* what processReviews returned
  costTracker,      \* this.costTracker
  waits,            \* history: the delays retry() has slept, in milliseconds
  callFailures,     \* history: attempts of the model call that threw
  modelCalls,       \* history: outcome of each model call of this processReviews
  billed,           \* history: usage of every response the processor received
  processed,        \* processReviews calls made on this processor
  \* ---- processBatchReviews ----
  hotelsWithReviews,\* reviews.length of each hotel handed to the batch
  batchIndex,       \* let i of the loop
  summaries,        \* const summaries
  batchPc,          \* position in processBatchReviews
  batchReturn,      \* what processBatchReviews returned
  outcomes,         \* history: what processReviews returned for each hotel
  batchLog,         \* history: hotels handled and waits made, in order
  \* ---- RateLimiter ----
  limiters,         \* the RateLimiter objects, each with its private fields
  nowMs,            \* Date.now()
  lpc,              \* position in wait()
  pending,          \* locals of a wait() that is sleeping
  waitLog,          \* history: the calls of wait() that have returned
  \* ---- parseGoogleMapsDate and isReviewWithinYears, called on one text ----
  dateCase,         \* what the text was built from: number, unit and plural, or none
  reviewDateText,   \* the dateText argument
  today,            \* new Date() at the call
  parsedDate,       \* what parseGoogleMapsDate returned
  within,           \* years and result of the isReviewWithinYears call
  dpc,              \* which of the two functions have been called
  \* ---- extractSpeedFromText, called on one text ----
  speedCase,        \* what the text was built from
  speedText,        \* the text argument
  speedReturn,      \* what extractSpeedFromText returned
  xpc,              \* whether the function has been called
  \* ---- one pass of the inner loop body of searchOptimizedWiFiReviews ----
  passElement,      \* reviewElements.nth(i)
  passReviews,      \* const reviews
  passLocals,       \* reviewText, reviewDate, reviewerName and rating of the pass
  ppc,              \* position in the loop body
  lookups,          \* history: the fields looked up in the element, in order
  passPushed,       \* history: the records this pass pushed
  \* ---- the field lookups of one pass of the inner loop of searchWiFiReviews ----
  fieldElement,     \* reviewElements.nth(i): what each selector of each field finds
  fieldLocals,      \* reviewerName, rating, reviewText and reviewDate of the pass
  fpc,              \* which lookup comes next
  \* ---- searchHotelOnMaps and navigateToReviews of one crawl of the enhanced scraper ----
  loadTime,         \* Date.now() - startTime of the network test, or that it timed out
  networkConditions,\* this.networkConditions
  retryStep,        \* the step that runs: "search" or "navigate"
  retryMax,         \* the maxRetries argument of retryWithExponentialBackoff
  retryAttempt,     \* let attempt of its for loop
  retryPc,          \* position in the step
  retryWaits,       \* history: the delays slept in this step, base and jitter
  retryThrown       \* history: attempts of this step that threw

scrollVars == <<page, reviews, scrollAttempts, lastReviewCount, spc, result,
                clock, stalls, pageGrew>>

runVars == <<program, apiKey, batchSize, mpc, browser, crawl, hotelIdx, bpc, batchNumber,
             rateLimiter, stats, failed, stageLog>>

aiVars == <<aiReviews, aiSpeeds, apc, attempt, response, aiReturn, costTracker, waits,
            callFailures, modelCalls, billed, processed>>

\* the state of a processReviews call, the cost tracker apart
aiCallVars == <<aiReviews, aiSpeeds, apc, attempt, response, aiReturn, waits,
                callFailures, modelCalls, billed, processed>>

batchVars == <<hotelsWithReviews, batchIndex, summaries, batchPc, batchReturn,
               outcomes, batchLog>>

limiterVars == <<limiters, nowMs, lpc, pending, waitLog>>

dateVars == <<dateCase, reviewDateText, today, parsedDate, within, dpc>>

speedVars == <<speedCase, speedText, speedReturn, xpc>>

passVars == <<passElement, passReviews, passLocals, ppc, lookups, passPushed>>

fieldVars == <<fieldElement, fieldLocals, fpc>>

retryVars == <<loadTime, networkConditions, retryStep, retryMax, retryAttempt,
               retryPc, retryWaits, retryThrown>>

\* everything but the state of a collector call
nonScrollVars == <<runVars, aiVars, batchVars, limiterVars, dateVars, speedVars, passVars, fieldVars, retryVars>>

\* everything but the state of a driver run
nonRunVars == <<scrollVars, aiVars, batchVars, limiterVars, dateVars, speedVars, passVars, fieldVars, retryVars>>

\* everything but the state of a processReviews call
nonAiVars == <<scrollVars, runVars, batchVars, limiterVars, dateVars, speedVars, passVars, fieldVars, retryVars>>

\* everything but the state of a processBatchReviews call
nonBatchVars == <<scrollVars, runVars, aiVars, limiterVars, dateVars, speedVars, passVars, fieldVars, retryVars>>

\* everything but the state of the RateLimiter objects
nonLimiterVars == <<scrollVars, runVars, aiVars, batchVars, dateVars, speedVars, passVars, fieldVars, retryVars>>

\* everything but the state of the date functions
nonDateVars == <<scrollVars, runVars, aiVars, batchVars, limiterVars, speedVars, passVars, fieldVars, retryVars>>

\* everything but the state of the speed extraction
nonSpeedVars == <<scrollVars, runVars, aiVars, batchVars, limiterVars,
                  dateVars, passVars, fieldVars, retryVars>>

\* everything but the state of a pass of the loop body
nonPassVars == <<scrollVars, runVars, aiVars, batchVars, limiterVars, dateVars,
                 speedVars, fieldVars, retryVars>>

\* everything but the state of the field lookups
nonFieldVars == <<scrollVars, runVars, aiVars, batchVars, limiterVars,
                  dateVars, speedVars, passVars, retryVars>>

\* everything but the state of the retried steps
nonRetryVars == <<scrollVars, runVars, aiVars, batchVars, limiterVars,
                  dateVars, speedVars, passVars, fieldVars>>

vars == <<scrollVars, runVars, aiVars, batchVars, limiterVars, dateVars,
          speedVars, passVars, fieldVars, retryVars>>

-----------------------------------------------------------------------------
(* Text helpers                                                            *)

None == <<"none">>

WsChars == {" ", "\t", "\n"}

\* \w of a JavaScript regular expression, over the characters the model uses
WordChars == {"a", "b", "c", "d", "e", "f", "g", "h", "i", "j", "k", "l", "m",
              "n", "o", "p", "q", "r", "s", "t", "u", "v", "w", "x", "y", "z",
              "A", "N", "O", "W", "I", "F", "G", "M",
              "0", "1", "2", "3", "4", "5", "6", "7", "8", "9", "_"}

\* the punctuation sanitizeString keeps: - . , ! ? ( )
KeptPunct == {"-", ".", ",", "!", "?", "(", ")"}

RECURSIVE DropLeadingWs(_)
DropLeadingWs(s) ==
  IF s # <<>> /\ Head(s) \in WsChars THEN DropLeadingWs(Tail(s)) ELSE s

RECURSIVE DropTrailingWs(_)
DropTrailingWs(s) ==
  IF s # <<>> /\ s[Len(s)] \in WsChars
    THEN DropTrailingWs(SubSeq(s, 1, Len(s) - 1))
    ELSE s

\* String.prototype.trim
Trim(s) == DropTrailingWs(DropLeadingWs(s))

\* .replace(/\s+/g, ' ')
CollapseWs(s) ==
  LET starts == SelectSeq([i \in 1..Len(s) |-> i],
                          LAMBDA i : s[i] \notin WsChars
                                       \/ i = 1 \/ s[i - 1] \notin WsChars)
  IN [k \in 1..Len(starts) |->
        IF s[starts[k]] \in WsChars THEN " " ELSE s[starts[k]]]

\* .replace(/[^\w\s\-.,!?()]/g, '')
StripSpecial(s) ==
  SelectSeq(s, LAMBDA c : c \in WordChars \cup WsChars \cup KeptPunct)

sanitizeString(s) == StripSpecial(CollapseWs(Trim(s)))

ToLower(c) ==
  CASE c = "A" -> "a" [] c = "N" -> "n" [] c = "O" -> "o"
    [] c = "W" -> "w" [] c = "I" -> "i" [] c = "F" -> "f"
    [] c = "G" -> "g" [] c = "M" -> "m"
    [] OTHER -> c

LowerCase(s) == [i \in 1..Len(s) |-> ToLower(s[i])]

\* s contains w as a substring
Includes(s, w) ==
  \E i \in 1..(Len(s) - Len(w) + 1) : SubSeq(s, i, i + Len(w) - 1) = w

WifiKeywords == {
  <<"w","i","f","i">>, <<"w","i","-","f","i">>,
  <<"i","n","t","e","r","n","e","t">>,
  <<"c","o","n","n","e","c","t","i","v","i","t","y">>,
  <<"n","e","t","w","o","r","k">>,
  <<"b","r","o","a","d","b","a","n","d">>,
  <<"c","o","n","n","e","c","t","i","o","n">>,
  <<"b","a","n","d","w","i","d","t","h">>,
  <<"s","p","e","e","d">>, <<"m","b","p","s">>,
  <<"u","p","l","o","a","d">>, <<"d","o","w","n","l","o","a","d">> }

\* wifiKeywords.test(reviewText), the regular expression has the i flag
wifiKeywordsTest(s) == \E w \in WifiKeywords : Includes(LowerCase(s), w)

-----------------------------------------------------------------------------
(* Dates: parseGoogleMapsDate and isReviewWithinYears (src/lib/utils).     *)
(* A Date is [y, m, d, t]: local year, month 0..11, day of month and the   *)
(* time of day in clock ticks.                                             *)

Digits == {"0", "1", "2", "3", "4", "5", "6", "7", "8", "9"}

DigitVal(c) ==
  CASE c = "0" -> 0 [] c = "1" -> 1 [] c = "2" -> 2 [] c = "3" -> 3
    [] c = "4" -> 4 [] c = "5" -> 5 [] c = "6" -> 6 [] c = "7" -> 7
    [] c = "8" -> 8 [] c = "9" -> 9

\* parseInt of a run of digits
RECURSIVE parseInt(_)
parseInt(ds) ==
  IF ds = <<>> THEN 0
  ELSE parseInt(SubSeq(ds, 1, Len(ds) - 1)) * 10 + DigitVal(ds[Len(ds)])

IsLeap(y) == (y % 4 = 0 /\ y % 100 # 0) \/ y % 400 = 0

DaysInMonth(y, m) ==
  IF m = 1 THEN (IF IsLeap(y) THEN 29 ELSE 28)
  ELSE IF m \in {3, 5, 8, 10} THEN 30 ELSE 31

\* The Date the JavaScript engine makes of an out-of-range month or day
RECURSIVE MakeDate(_, _, _, _)
MakeDate(y, m, d, t) ==
  IF m < 0 THEN MakeDate(y - 1, m + 12, d, t)
  ELSE IF m > 11 THEN MakeDate(y + 1, m - 12, d, t)
  ELSE IF d < 1 THEN
    (IF m = 0 THEN MakeDate(y - 1, 11, d + 31, t)
              ELSE MakeDate(y, m - 1, d + DaysInMonth(y, m - 1), t))
  ELSE IF d > DaysInMonth(y, m) THEN MakeDate(y, m + 1, d - DaysInMonth(y, m), t)
  ELSE [y |-> y, m |-> m, d |-> d, t |-> t]

\* a >= b on Dates
DateGeq_Always(a, b) == TRUE
DateGeq(a, b) ==
  \/ a.y > b.y
  \/ a.y = b.y /\ a.m > b.m
  \/ a.y = b.y /\ a.m = b.m /\ a.d > b.d
  \/ a.y = b.y /\ a.m = b.m /\ a.d = b.d /\ a.t >= b.t

IsWordAt(s, i) == i >= 1 /\ i <= Len(s) /\ s[i] \in WordChars

\* index just after the run of digits that starts at i (i itself when none)
RECURSIVE DigitsEnd(_, _)
DigitsEnd(s, i) ==
  IF i <= Len(s) /\ s[i] \in Digits THEN DigitsEnd(s, i + 1) ELSE i

\* index just after the run of whitespace that starts at i (i itself when none)
RECURSIVE WsEnd(_, _)
WsEnd(s, i) ==
  IF i <= Len(s) /\ s[i] \in WsChars THEN WsEnd(s, i + 1) ELSE i

StartsAt(s, i, w) == i + Len(w) - 1 <= Len(s) /\ SubSeq(s, i, i + Len(w) - 1) = w

\* /\b(20\d{2})\b/ : the positions where it matches
AbsoluteYearAt(s, i) ==
  /\ i + 3 <= Len(s)
  /\ s[i] = "2" /\ s[i + 1] = "0" /\ s[i + 2] \in Digits /\ s[i + 3] \in Digits
  /\ ~IsWordAt(s, i - 1)
  /\ ~IsWordAt(s, i + 4)

\* \s+ unit s? \s+ ago, matched from position j on
UnitAgoAt(s, j, unit) ==
  LET k == WsEnd(s, j)
      u == k + Len(unit)
      v == IF u <= Len(s) /\ s[u] = "s" THEN u + 1 ELSE u
  IN /\ k > j
     /\ StartsAt(s, k, unit)
     /\ WsEnd(s, v) > v
     /\ StartsAt(s, WsEnd(s, v), <<"a","g","o">>)

\* The pattern with a getValue that returns 1 whatever was matched
RelativeAt_NoNumber(s, i, unit) ==
  IF \/ DigitsEnd(s, i) > i /\ UnitAgoAt(s, DigitsEnd(s, i), unit)
     \/ StartsAt(s, i, <<"a">>) /\ UnitAgoAt(s, i + 1, unit)
     \/ StartsAt(s, i, <<"a","n">>) /\ UnitAgoAt(s, i + 2, unit)
     \/ StartsAt(s, i, <<"o","n","e">>) /\ UnitAgoAt(s, i + 3, unit)
    THEN 1
    ELSE -1

\* /(?:(\d+)|a|an|one)\s+<unit>s?\s+ago/ tried at position i: the value
\* getValue gives, or -1 when the pattern does not match there.  The
\* alternatives are tried in the order written.
RelativeAt(s, i, unit) ==
  LET e == DigitsEnd(s, i)
  IN IF e > i /\ UnitAgoAt(s, e, unit) THEN parseInt(SubSeq(s, i, e - 1))
     ELSE IF StartsAt(s, i, <<"a">>) /\ UnitAgoAt(s, i + 1, unit) THEN 1
     ELSE IF StartsAt(s, i, <<"a","n">>) /\ UnitAgoAt(s, i + 2, unit) THEN 1
     ELSE IF StartsAt(s, i, <<"o","n","e">>) /\ UnitAgoAt(s, i + 3, unit) THEN 1
     ELSE -1

\* text.match(pattern.regex): the value at the leftmost match, -1 when none
RelativeMatch(s, unit) ==
  LET hits == {i \in 1..Len(s) : RelativeAt(s, i, unit) >= 0}
  IN IF hits = {} THEN -1
     ELSE RelativeAt(s, CHOOSE i \in hits : \A j \in hits : i <= j, unit)

YearWord == <<"y","e","a","r">>
MonthWord == <<"m","o","n","t","h">>
WeekWord == <<"w","e","e","k">>
DayWord == <<"d","a","y">>
YesterdayWord == <<"y","e","s","t","e","r","d","a","y">>

\* The null a Date-valued function returns
NullDate == [y |-> 0, m |-> 0, d |-> 0, t |-> 0]

\* parseGoogleMapsDate(dateText), the clock reading now; NullDate for null
parseGoogleMapsDate(dateText, now) ==
  LET text == LowerCase(Trim(dateText))
      abs == {i \in 1..Len(text) : AbsoluteYearAt(text, i)}
  IN IF text = <<>> THEN NullDate
     ELSE IF abs # {} THEN
       LET i == CHOOSE i \in abs : \A j \in abs : i <= j
       IN MakeDate(parseInt(SubSeq(text, i, i + 3)), 11, 31, 0)
     ELSE IF RelativeMatch(text, YearWord) >= 0 THEN
       MakeDate(now.y - RelativeMatch(text, YearWord), now.m, now.d, now.t)
     ELSE IF RelativeMatch(text, MonthWord) >= 0 THEN
       MakeDate(now.y, now.m - RelativeMatch(text, MonthWord), now.d, now.t)
     ELSE IF RelativeMatch(text, WeekWord) >= 0 THEN
       MakeDate(now.y, now.m, now.d - 7 * RelativeMatch(text, WeekWord), now.t)
     ELSE IF RelativeMatch(text, DayWord) >= 0 THEN
       MakeDate(now.y, now.m, now.d - RelativeMatch(text, DayWord), now.t)
     ELSE IF Includes(text, YesterdayWord) THEN
       MakeDate(now.y, now.m, now.d - 1, now.t)
     ELSE NullDate

\* if (!reviewDate) return true
UndatedReview_Dropped == FALSE
UndatedReview == TRUE

\* isReviewWithinYears(dateText, years): now is the clock read inside
\* parseGoogleMapsDate, later the clock read by `new Date()` for the cutoff
isReviewWithinYears(dateText, years, now, later) ==
  LET reviewDate == parseGoogleMapsDate(dateText, now)
      cutoffDate == MakeDate(later.y - years, later.m, later.d, later.t)
  IN IF reviewDate = NullDate THEN UndatedReview
     ELSE DateGeq(reviewDate, cutoffDate)

-----------------------------------------------------------------------------
(* The page: review elements, each holding what the per-field selectors    *)
(* find in it.  A field is the sequence of the textContent values of its   *)
(* selectors, in list order; None where the selector matches nothing.      *)

Pad(n) == [i \in 1..n |-> "a"]

TextPlain == <<"w","i","f","i"," ">> \o Pad(17)
TextApos == <<"w","i","f","i","'","s"," ">> \o Pad(17)
TextPlainS == <<"w","i","f","i","s"," ">> \o Pad(17)
TextShort == <<"w","i","f","i"," ","o","k">>
TextNoKeyword == Pad(22)

NameAnn == <<"A","n","n">>
NameONeil == <<"O","'","N","e","i","l">>

DateTwoYears == <<"2"," ","y","e","a","r","s"," ","a","g","o">>
DateSixYears == <<"6"," ","y","e","a","r","s"," ","a","g","o">>
DateAMonth == <<"a"," ","m","o","n","t","h"," ","a","g","o">>

Anonymous == <<"A","n","o","n","y","m","o","u","s">>

Element(name, text, date) ==
  [name |-> <<name>>, text |-> <<text>>, date |-> <<date>>]

\* The elements the pages of the model are made of
Elements == {
  Element(NameAnn, TextApos, DateTwoYears),
  Element(NameAnn, TextApos, DateAMonth),
  Element(NameAnn, TextPlainS, None),
  Element(NameAnn, TextPlain, DateTwoYears),
  Element(NameONeil, TextPlain, <<>>),
  Element(None, TextPlain, DateSixYears),
  Element(NameAnn, TextShort, DateTwoYears),
  Element(NameAnn, TextNoKeyword, DateTwoYears) }

\* `name && name.trim()`: the selector matched and its text is not blank
NonBlank(c) == c # None /\ Trim(c) # <<>>

\* The name, date loops: the first selector whose text is not blank wins
RECURSIVE FirstNonBlank(_, _)
FirstNonBlank(cands, default) ==
  IF cands = <<>> THEN default
  ELSE IF NonBlank(Head(cands)) THEN Trim(Head(cands))
  ELSE FirstNonBlank(Tail(cands), default)

\* The text loop (scraper.ts:1168-1178): every selector is looked at and a
\* text replaces the current one when it is longer
RECURSIVE LongestText(_, _)
LongestText(cands, reviewText) ==
  IF cands = <<>> THEN reviewText
  ELSE IF NonBlank(Head(cands)) /\ Len(Head(cands)) > Len(reviewText)
    THEN LongestText(Tail(cands), Trim(Head(cands)))
    ELSE LongestText(Tail(cands), reviewText)

\* reviews.some(r => r.reviewer_name === reviewerName && r.review_text === reviewText)
isDuplicate(revs, reviewerName, reviewText) ==
  \E k \in 1..Len(revs) :
    revs[k].reviewer_name = reviewerName /\ revs[k].review_text = reviewText

\* reviews.push({...}) of scraper.ts:1235-1243
WiFiReview(reviewerName, reviewText, reviewDate) ==
  [reviewer_name |-> sanitizeString(reviewerName),
   review_text |-> sanitizeString(reviewText),
   review_date |-> sanitizeString(reviewDate)]

maxReviews == 200
maxScrollAttempts == 20
targetYears == 5
minTextLength == 20

\* One pass of the inner for-loop body of searchWiFiReviews
\* (scraper.ts:1113-1252) over element el
ExtractReview(revs, el, now, later) ==
  LET reviewerName == FirstNonBlank(el.name, Anonymous)
      reviewText == LongestText(el.text, <<>>)
      reviewDate == FirstNonBlank(el.date, <<>>)
      wifiMentioned == wifiKeywordsTest(reviewText)
      isWithinTargetPeriod ==
        IF reviewDate # <<>>
          THEN isReviewWithinYears(reviewDate, targetYears, now, later)
          ELSE TRUE
  IN IF /\ wifiMentioned
        /\ Len(reviewText) > minTextLength
        /\ isWithinTargetPeriod
        /\ ~isDuplicate(revs, reviewerName, reviewText)
       THEN Append(revs, WiFiReview(reviewerName, reviewText, reviewDate))
       ELSE revs

\* for (let i = lastReviewCount; i < currentReviewCount && reviews.length <
\* maxReviews; i++): elements i+1..cur of the page, 1-based
RECURSIVE ExtractRange(_, _, _, _, _, _)
ExtractRange(revs, pg, i, cur, now, later) ==
  IF i < cur /\ Len(revs) < maxReviews
    THEN ExtractRange(ExtractReview(revs, pg[i + 1], now, later),
                      pg, i + 1, cur, now, later)
    ELSE revs

-----------------------------------------------------------------------------
(* HotelWiFiScraper.searchWiFiReviews (scraper.ts:1049-1305), one call     *)

MaxPage == 2
MaxGrow == 1

NowDates == { [y |-> 2025, m |-> 7, d |-> 15, t |-> 5] }

\* The clock read by a later `new Date()`: the same tick or the next one
LaterThan(n) == { n, [n EXCEPT !.t = n.t + 1] }

SeqsUpTo(S, n) == UNION { [1..k -> S] : k \in 0..n }

\* while (scrollAttempts < maxScrollAttempts && reviews.length < maxReviews)
EnhLoopCond(sa, revs) == sa < maxScrollAttempts /\ Len(revs) < maxReviews

\* scraper.ts:1255-1274: a cycle that found no new element scrolls and
\* counts the attempt, a cycle that found some resets the counter
EnhScrollAttemptsAfter_NoCount(cur, last, sa) == IF cur = last THEN sa ELSE 0
EnhScrollAttemptsAfter(cur, last, sa) == IF cur = last THEN sa + 1 ELSE 0

\* scraper.ts:1276-1279: the catch of the loop body counts an attempt
EnhScrollAttemptsOnError(sa) == sa + 1

\* scraper.ts:1301-1304: the outer catch returns what was collected
EnhOuterCatch == "returned"

ScrollIdle ==
  /\ page = <<>> /\ reviews = <<>> /\ scrollAttempts = 0 /\ lastReviewCount = 0
  /\ spc = "idle" /\ result = <<>> /\ stalls = 0 /\ pageGrew = FALSE
  /\ clock = CHOOSE n \in NowDates : TRUE

\* No processReviews call is running
AiIdle ==
  /\ aiReviews = 0 /\ aiSpeeds = <<>> /\ apc = "idle" /\ attempt = 0
  /\ response = <<>>
  /\ aiReturn = <<>> /\ waits = <<>> /\ callFailures = 0
  /\ costTracker = [inputTokens |-> 0, outputTokens |-> 0, totalCost |-> 0]
  /\ modelCalls = <<>> /\ processed = 0
  /\ billed = [inputTokens |-> 0, outputTokens |-> 0, totalCost |-> 0]

\* No driver script is running
RunIdle ==
  /\ program = "none" /\ apiKey = FALSE /\ batchSize = 0 /\ mpc = "idle"
  /\ browser = "null"
  /\ crawl = <<>> /\ hotelIdx = 0 /\ bpc = "idle" /\ batchNumber = 0
  /\ rateLimiter = [successCount |-> 0, failureCount |-> 0]
  /\ stats = <<>> /\ failed = 0 /\ stageLog = <<>>

\* No batch of hotels is being summarised
BatchIdle ==
  /\ hotelsWithReviews = <<>> /\ batchIndex = 0 /\ summaries = <<>>
  /\ batchPc = "idle" /\ batchReturn = <<>> /\ outcomes = <<>>
  /\ batchLog = <<>>

\* No RateLimiter has been constructed
LimiterIdle ==
  /\ limiters = <<>> /\ nowMs = 0 /\ lpc = <<>> /\ pending = <<>>
  /\ waitLog = <<>>

\* No date text is being parsed
DateIdle ==
  /\ dateCase = <<>> /\ reviewDateText = <<>> /\ today = <<>>
  /\ parsedDate = <<>> /\ within = <<>> /\ dpc = "idle"

\* No text is being searched for a speed
SpeedIdle ==
  /\ speedCase = <<>> /\ speedText = <<>> /\ speedReturn = <<>> /\ xpc = "idle"

\* No element is being looked at
PassIdle ==
  /\ passElement = <<>> /\ passReviews = <<>> /\ passLocals = <<>>
  /\ ppc = "idle" /\ lookups = <<>> /\ passPushed = <<>>

\* No field of an element is being looked up
FieldIdle ==
  /\ fieldElement = <<>> /\ fieldLocals = <<>> /\ fpc = "idle"

\* No step of a crawl is being retried
RetryIdle ==
  /\ loadTime = 0 /\ networkConditions = <<>> /\ retryStep = "none"
  /\ retryMax = 0 /\ retryAttempt = 0 /\ retryPc = "idle"
  /\ retryWaits = <<>> /\ retryThrown = 0

InitEnh ==
  /\ RunIdle
  /\ AiIdle
  /\ BatchIdle
  /\ LimiterIdle
  /\ DateIdle
  /\ SpeedIdle
  /\ PassIdle
  /\ FieldIdle
  /\ RetryIdle
  /\ page \in SeqsUpTo(Elements, MaxPage)
  /\ reviews = <<>>
  /\ scrollAttempts = 0
  /\ lastReviewCount = 0
  /\ spc = "start"
  /\ result = <<>>
  /\ clock \in NowDates
  /\ stalls = 0
  /\ pageGrew = FALSE

\* scraper.ts:1062-1079: the search box step, inside the outer try
Enh_Start ==
  /\ spc = "start"
  /\ \/ /\ spc' = "loop"
        /\ UNCHANGED result
     \/ /\ spc' = EnhOuterCatch
        /\ result' = reviews
  /\ UNCHANGED <<page, reviews, scrollAttempts, lastReviewCount, clock, stalls,
                 pageGrew>>
  /\ UNCHANGED nonScrollVars

\* One cycle of the while loop that finds new elements, scraper.ts:1081-1280:
\* they are extracted, and the else branch of 1271-1274 is taken
Enh_CycleNew ==
  /\ spc = "loop"
  /\ EnhLoopCond(scrollAttempts, reviews)
  /\ stalls <= maxScrollAttempts
  /\ Len(page) # lastReviewCount
  /\ \E later \in LaterThan(clock) :
       reviews' = ExtractRange(reviews, page, lastReviewCount, Len(page), clock, later)
  /\ scrollAttempts' =
       EnhScrollAttemptsAfter(Len(page), lastReviewCount, scrollAttempts)
  /\ lastReviewCount' = Len(page)
  /\ stalls' = 0
  /\ UNCHANGED <<page, spc, result, clock, pageGrew>>
  /\ UNCHANGED nonScrollVars

\* One cycle of the while loop that finds the element count unchanged,
\* scraper.ts:1255-1270: it scrolls, and the page may load more elements
Enh_CycleStalled ==
  /\ spc = "loop"
  /\ EnhLoopCond(scrollAttempts, reviews)
  /\ stalls <= maxScrollAttempts
  /\ Len(page) = lastReviewCount
  /\ scrollAttempts' =
       EnhScrollAttemptsAfter(Len(page), lastReviewCount, scrollAttempts)
  /\ stalls' = stalls + 1
  /\ \E more \in SeqsUpTo(Elements, MaxGrow) :
       /\ Len(page) + Len(more) <= MaxPage
       /\ page' = page \o more
       /\ pageGrew' = (pageGrew \/ more # <<>>)
  /\ UNCHANGED <<reviews, lastReviewCount, spc, result, clock>>
  /\ UNCHANGED nonScrollVars

\* A cycle whose element lookup throws: the loop's catch, scraper.ts:1276-1279
Enh_CycleError ==
  /\ spc = "loop"
  /\ EnhLoopCond(scrollAttempts, reviews)
  /\ stalls <= maxScrollAttempts
  /\ scrollAttempts' = EnhScrollAttemptsOnError(scrollAttempts)
  /\ stalls' = stalls + 1
  /\ UNCHANGED <<page, reviews, lastReviewCount, spc, result, clock, pageGrew>>
  /\ UNCHANGED nonScrollVars

\* The loop condition fails: scraper.ts:1282-1299, return reviews
Enh_Return ==
  /\ spc = "loop"
  /\ ~EnhLoopCond(scrollAttempts, reviews)
  /\ spc' = "returned"
  /\ result' = reviews
  /\ UNCHANGED <<page, reviews, scrollAttempts, lastReviewCount, clock, stalls,
                 pageGrew>>
  /\ UNCHANGED nonScrollVars

NextEnh ==
  Enh_Start \/ Enh_CycleNew \/ Enh_CycleStalled \/ Enh_CycleError \/ Enh_Return

SpecEnh == InitEnh /\ [][NextEnh]_vars

\* No two records of a list share (reviewer_name, review_text)
NoDuplicatePair(revs) ==
  \A i, j \in 1..Len(revs) :
    i # j => ~(/\ revs[i].reviewer_name = revs[j].reviewer_name
               /\ revs[i].review_text = revs[j].review_text)

\* C1: when the element count never increases after it was first counted,
\* searchWiFiReviews sees at most maxScrollAttempts consecutive stalled
\* cycles, after which the loop condition is false and only the return is
\* left; it never throws and returns the reviews collected so far.
C1_StalledLoopReturns ==
  /\ spc # "threw"
  /\ (~pageGrew => stalls <= maxScrollAttempts)
  /\ (~pageGrew /\ spc = "loop" /\ stalls = maxScrollAttempts
        => ~EnhLoopCond(scrollAttempts, reviews) /\ ENABLED Enh_Return)
  /\ (spc = "returned" => result = reviews)

\* C1 witness: a page that never grew, the loop gave up after
\* maxScrollAttempts stalled cycles and returned the reviews it had
C1_Witness ==
  /\ spc = "returned"
  /\ ~pageGrew
  /\ stalls = maxScrollAttempts
  /\ Len(page) > 0
  /\ Len(result) > 0

\* C3: the list searchWiFiReviews returns never holds two records with the
\* same (reviewer_name, review_text) pair
C3_NoDuplicateReviews == spc = "returned" => NoDuplicatePair(result)

-----------------------------------------------------------------------------
(* OptimizedHotelWiFiScraper.searchOptimizedWiFiReviews                    *)
(* (optimized-scraper.ts:467-728), one call                                *)

targetWiFiReviews == 50
minWiFiReviews == 40
optMaxScrollAttempts == 30
optMinTextLength == 50

TextLong == <<"w","i","f","i"," ">> \o Pad(46)
TextLongApos == <<"w","i","f","i","'","s"," ">> \o Pad(46)

DigitChar(n) ==
  CASE n = 0 -> "0" [] n = 1 -> "1" [] n = 2 -> "2" [] n = 3 -> "3"
    [] n = 4 -> "4" [] n = 5 -> "5" [] n = 6 -> "6" [] n = 7 -> "7"
    [] n = 8 -> "8" [] n = 9 -> "9"

\* The reviewer name shown by the i-th element of a feed
NameOf(i) == <<"r", DigitChar(i \div 10), DigitChar(i % 10)>>

\* The pages of the optimized collector are prefixes of a feed: in
\* "distinct" every element is a Wi-Fi review of its own reviewer, in
\* "sparse" every other element is one, in "repeat" every element shows the
\* same review
FeedKinds == {"distinct", "sparse", "repeat"}

FeedElement(kind, i) ==
  CASE kind = "distinct" -> Element(NameOf(i), TextLong, DateTwoYears)
    [] kind = "sparse" ->
         IF i % 2 = 1 THEN Element(NameOf(i), TextLong, DateAMonth)
                      ELSE Element(NameOf(i), TextPlain, DateAMonth)
    [] kind = "repeat" -> Element(NameAnn, TextLongApos, DateTwoYears)

Feed(kind, n) == [i \in 1..n |-> FeedElement(kind, i)]

\* The element counts the first cycle may find
InitialCounts == {0, 1, minWiFiReviews - 1, minWiFiReviews, targetWiFiReviews - 1,
                  targetWiFiReviews, targetWiFiReviews + 1}

MaxLoads == 2

\* while (scrollAttempts < maxScrollAttempts && reviews.length < targetWiFiReviews)
OptLoopCond(sa, revs) == sa < optMaxScrollAttempts /\ Len(revs) < targetWiFiReviews

\* if (reviews.length < minWiFiReviews && currentReviewCount === lastReviewCount)
\* of optimized-scraper.ts:674: the cycle scrolls and counts the attempt
OptScrolls(revs, cur, last) == Len(revs) < minWiFiReviews /\ cur = last

\* optimized-scraper.ts:674-693
OptScrollAttemptsAfter(revs, cur, last, sa) ==
  IF OptScrolls(revs, cur, last) THEN sa + 1 ELSE 0

\* One pass of the inner for-loop body (optimized-scraper.ts:531-670)
OptExtractReview(revs, el, now, later) ==
  LET reviewText == LongestText(el.text, <<>>)
      reviewDate == FirstNonBlank(el.date, <<>>)
      reviewerName == FirstNonBlank(el.name, Anonymous)
  IN IF ~wifiKeywordsTest(reviewText) THEN revs
     ELSE IF Len(reviewText) < optMinTextLength THEN revs
     ELSE IF reviewDate # <<>>
             /\ ~isReviewWithinYears(reviewDate, targetYears, now, later) THEN revs
     ELSE IF isDuplicate(revs, reviewerName, reviewText) THEN revs
     ELSE Append(revs, WiFiReview(reviewerName, reviewText, reviewDate))

\* for (let i = lastReviewCount; i < currentReviewCount && reviews.length <
\* targetWiFiReviews; i++), with the early break of line 662
RECURSIVE OptExtractRange(_, _, _, _, _, _)
OptExtractRange(revs, pg, i, cur, now, later) ==
  IF i < cur /\ Len(revs) < targetWiFiReviews
    THEN OptExtractRange(OptExtractReview(revs, pg[i + 1], now, later),
                         pg, i + 1, cur, now, later)
    ELSE revs

InitOpt ==
  /\ RunIdle
  /\ AiIdle
  /\ BatchIdle
  /\ LimiterIdle
  /\ DateIdle
  /\ SpeedIdle
  /\ PassIdle
  /\ FieldIdle
  /\ RetryIdle
  /\ \E kind \in FeedKinds, n \in InitialCounts : page = Feed(kind, n)
  /\ reviews = <<>>
  /\ scrollAttempts = 0
  /\ lastReviewCount = 0
  /\ spc = "start"
  /\ result = <<>>
  /\ clock \in NowDates
  /\ stalls = 0
  /\ pageGrew = FALSE

\* optimized-scraper.ts:484-499: the search box step, inside the outer try;
\* its catch (line 699) falls through to the statistics and the return
Opt_Start ==
  /\ spc = "start"
  /\ \/ /\ spc' = "loop"
        /\ UNCHANGED result
     \/ /\ spc' = "returned"
        /\ result' = reviews
  /\ UNCHANGED <<page, reviews, scrollAttempts, lastReviewCount, clock, stalls,
                 pageGrew>>
  /\ UNCHANGED nonScrollVars

\* The feeds a page is a prefix of
KindsOf(pg) ==
  IF pg = <<>> THEN FeedKinds
  ELSE {kind \in FeedKinds : pg[Len(pg)] = FeedElement(kind, Len(pg))}

\* One cycle of the while loop, optimized-scraper.ts:501-697.  When it
\* scrolls the page may load the next element of its feed.
Opt_Cycle ==
  /\ spc = "loop"
  /\ OptLoopCond(scrollAttempts, reviews)
  /\ stalls <= optMaxScrollAttempts
  /\ \E cur \in {Len(page)} :
     \E revs \in {OptExtractRange(reviews, page, lastReviewCount, cur, clock, clock)} :
        /\ reviews' = revs
        /\ scrollAttempts' =
             OptScrollAttemptsAfter(revs, cur, lastReviewCount, scrollAttempts)
        /\ IF OptScrolls(revs, cur, lastReviewCount)
             THEN UNCHANGED lastReviewCount
             ELSE lastReviewCount' = cur
        /\ stalls' = IF cur = lastReviewCount THEN stalls + 1 ELSE 0
        /\ \/ UNCHANGED <<page, pageGrew>>
           \/ /\ OptScrolls(revs, cur, lastReviewCount)
              /\ cur < targetWiFiReviews + MaxLoads
              /\ \E kind \in KindsOf(page) :
                   page' = Append(page, FeedElement(kind, cur + 1))
              /\ pageGrew' = TRUE
  /\ UNCHANGED <<spc, result, clock>>
  /\ UNCHANGED nonScrollVars

\* A cycle whose element lookup throws: optimized-scraper.ts:694-697
Opt_CycleError ==
  /\ spc = "loop"
  /\ OptLoopCond(scrollAttempts, reviews)
  /\ stalls <= optMaxScrollAttempts
  /\ scrollAttempts' = scrollAttempts + 1
  /\ stalls' = stalls + 1
  /\ UNCHANGED <<page, reviews, lastReviewCount, spc, result, clock, pageGrew>>
  /\ UNCHANGED nonScrollVars

\* The loop condition fails: optimized-scraper.ts:703-727, return reviews
Opt_Return ==
  /\ spc = "loop"
  /\ ~OptLoopCond(scrollAttempts, reviews)
  /\ spc' = "returned"
  /\ result' = reviews
  /\ UNCHANGED <<page, reviews, scrollAttempts, lastReviewCount, clock, stalls,
                 pageGrew>>
  /\ UNCHANGED nonScrollVars

NextOpt == Opt_Start \/ Opt_Cycle \/ Opt_CycleError \/ Opt_Return

SpecOpt == InitOpt /\ [][NextOpt]_vars

\* C2: when the element count never increases, searchOptimizedWiFiReviews
\* sees at most maxScrollAttempts (30) consecutive cycles with an unchanged
\* count before the loop ends, whatever number of reviews below the target
\* it has collected.
C2_OptStalledLoopEnds == ~pageGrew => stalls <= optMaxScrollAttempts

-----------------------------------------------------------------------------
(* The per-hotel crawl, the batch drivers and the main() functions         *)
(* scripts/scraper.ts, scripts/optimized-scraper.ts,                       *)
(* scripts/complete-pipeline.ts, scripts/singapore-data-collection.ts,     *)
(* scripts/test-optimized-scraper.ts                                       *)

\* The scripts with a main() that launches a browser
Programs == {"scraper", "pipeline", "singapore", "optimizedTest"}

\* The scripts whose main() ends its catch block with process.exit(1)
ExitingPrograms == {"scraper", "pipeline", "singapore"}

\* The scripts whose constructor builds a WiFiReviewProcessor, which throws
\* without OPENAI_API_KEY (ai-processor.ts:59-63)
AiPrograms == {"pipeline", "singapore"}

\* Length of the collector's hotel list that a run walks through; the list of
\* singapore-data-collection.ts:62-99 has 30 entries
MaxHotels == 3

\* Number of batches of processAllHotels that are followed
MaxBatches == 2

\* realHotels of scrapeAllHotels and of getHotelsToProcess
realHotelsLength == 2

\* const testHotel of test-optimized-scraper.ts
testHotelsLength == 1

NumHotels(p) ==
  CASE p = "scraper"       -> realHotelsLength
    [] p = "pipeline"      -> realHotelsLength
    [] p = "singapore"     -> MaxHotels
    [] p = "optimizedTest" -> testHotelsLength

\* await pipeline.processAllHotels(5) in main()
mainBatchSize == 5

\* The batch size of main(), and one that the list of hotels fills
BatchSizes == {realHotelsLength, mainBatchSize}

\* reviews.length >= 20 is the least collection the optimized crawl records as
\* a success
goodCollection == 20

\* Number of reviews a crawl's extraction returns
FoundCounts(p) ==
  IF p = "optimizedTest" THEN {0, goodCollection - 1, goodCollection} ELSE {0, 1, 2}

\* scraper.ts:1338, optimized-scraper.ts:762-771
RecordsSuccess_Always(p, n) == TRUE
RecordsSuccess(p, n) == IF p = "optimizedTest" THEN n >= goodCollection ELSE n > 0

\* A scrapeHotelWiFiReviews call that has not started
IdleCrawl ==
  [pc |-> "idle", page |-> "none", n |-> 0, failedAt |-> "none",
   completion |-> "none", recS |-> 0, recF |-> 0]

Settled(c) == c.pc \in {"returned", "threw"}

InProgress(c) == c.pc \notin {"idle", "returned", "threw"}

\* The catch block of scrapeHotelWiFiReviews completes by return []
CatchCompletion_Rethrow == "throw"
CatchCompletion == "return"

\* finally { await page.close() }
PageAfterFinally_Leak(pg) == pg
PageAfterFinally(pg) == "closed"

\* const reviews = await this.scraper.scrapeHotelWiFiReviews(hotel): the
\* caller resumes when the call has settled
Awaited_NoAwait(c) == TRUE
Awaited(c) == Settled(c)

\* The record of a call is dropped once its caller has resumed
Consumed(c) == IF Settled(c) THEN IdleCrawl ELSE c

\* Where the driver continues when the handling of a hotel throws: the
\* per-hotel catch of scrapeAllHotels, processHotel and collectHotelData;
\* the test script has no per-hotel handler
HotelCatch_Rethrow(p) == "threw"
HotelCatch(p) ==
  CASE p = "scraper"       -> "loop"
    [] p = "pipeline"      -> "pause"
    [] p = "singapore"     -> "loop"
    [] p = "optimizedTest" -> "threw"

\* Where the driver continues when the handling of a hotel ends without an
\* exception
HotelDone(p) == IF p = "pipeline" THEN "pause" ELSE "loop"

\* Where the driver continues when the crawl of a hotel returned n reviews:
\* if (reviews.length === 0) ends the handling of the hotel
\* (complete-pipeline.ts:105-108, singapore-data-collection.ts:121-124,
\* scraper.ts: if (reviews.length > 0) save); otherwise the pipeline and the
\* scraper save the reviews, the collector goes to processReviews and the
\* test script only logs
AfterCrawl_NoEmptyCheck(p, n) ==
  CASE p = "scraper"       -> "save"
    [] p = "pipeline"      -> "save"
    [] p = "singapore"     -> "ai"
    [] p = "optimizedTest" -> "loop"
AfterCrawl_NoSave(p, n) ==
  IF n = 0 THEN HotelDone(p)
  ELSE IF p = "optimizedTest" THEN "loop" ELSE "ai"
AfterCrawl(p, n) ==
  IF n = 0 THEN HotelDone(p)
  ELSE CASE p = "scraper"       -> "save"
         [] p = "pipeline"      -> "save"
         [] p = "singapore"     -> "ai"
         [] p = "optimizedTest" -> "loop"

\* Where the driver continues when saveReviewsToDatabase has resolved: the
\* pipeline calls processReviews (complete-pipeline.ts:114-117), the scraper
\* is done with the hotel
AfterSave(p) == IF p = "pipeline" THEN "ai" ELSE HotelDone(p)

\* Where the driver continues when processReviews has resolved: processHotel
\* returns false on null (complete-pipeline.ts:119-122) and saves a summary;
\* collectHotelData only logs the summary
AfterSummary(p, summary) ==
  IF p = "pipeline" /\ summary # "null" THEN "saveSummary" ELSE HotelDone(p)

\* How the constructor called by main() completes: the constructors of
\* CompleteWiFiPipeline and SingaporeDataCollector build a WiFiReviewProcessor
\* (complete-pipeline.ts:43, singapore-data-collection.ts:40), whose
\* constructor throws if (!apiKey); the call stands before the try of main(),
\* so the exception rejects main()
Constructed_NoKeyCheck(p, key) == "initialize"
Constructed(p, key) ==
  IF p \in AiPrograms /\ ~key THEN "rejected" ELSE "initialize"

\* What main() does at the end of its catch block
AfterCatch(p) == IF p \in ExitingPrograms THEN "exited" ELSE "finally"

\* response.usage?.prompt_tokens || 0
Tokens(usage, field) == IF usage.present THEN usage[field] ELSE 0

\* calculateCost in units of $0.25 per million tokens: an input token costs
\* one unit and an output token eight
calculateCost(inputTokens, outputTokens) == inputTokens + 8 * outputTokens

\* The cost tracker after a response: nothing is added when the content is
\* absent, because the throw of line 151 comes first
CostAfter(tracker, r) ==
  IF r.content = "absent" THEN tracker
  ELSE [inputTokens |-> tracker.inputTokens + Tokens(r.usage, "prompt_tokens"),
        outputTokens |-> tracker.outputTokens + Tokens(r.usage, "completion_tokens"),
        totalCost |-> tracker.totalCost
                        + calculateCost(Tokens(r.usage, "prompt_tokens"),
                                        Tokens(r.usage, "completion_tokens"))]

\* getCostSummary(): a copy of this.costTracker
getCostSummary == costTracker

\* response.usage of the calls the drivers make
runUsage == [present |-> TRUE, prompt_tokens |-> 900, completion_tokens |-> 250]

\* What the chat completion of a hotel resolves to, as far as the driver can
\* tell: no content, content that is not JSON, or a JSON object
RunResponses ==
  { [content |-> k, usage |-> runUsage] : k \in {"absent", "invalid", "object"} }

\* What await this.aiProcessor.processReviews(hotel.name, reviews) leaves
\* behind: a summary or null, and the cost tracker.  When every attempt of the
\* call rejects it returns null and the tracker is untouched
HotelOutcomes(tracker) ==
  { [summary |-> "null", tracker |-> tracker] }
  \cup { [summary |-> IF r.content = "object" THEN "summary" ELSE "null",
          tracker |-> CostAfter(tracker, r)] : r \in RunResponses }

InitialStats ==
  [hotelsProcessed |-> 0, totalReviewsCollected |-> 0, totalSummariesGenerated |-> 0,
   totalCost |-> 0, hotelsCrawled |-> 0, totalReviews |-> 0, successfulHotels |-> 0,
   failedHotels |-> 0]

InitRun ==
  /\ ScrollIdle
  /\ AiIdle
  /\ BatchIdle
  /\ LimiterIdle
  /\ DateIdle
  /\ SpeedIdle
  /\ PassIdle
  /\ FieldIdle
  /\ RetryIdle
  /\ program \in Programs
  /\ apiKey \in BOOLEAN
  /\ batchSize \in (IF program = "pipeline" THEN BatchSizes ELSE {0})
  /\ mpc = "new"
  /\ browser = "null"
  /\ crawl = [h \in 1..NumHotels(program) |-> IdleCrawl]
  /\ hotelIdx = 0
  /\ bpc = "idle"
  /\ batchNumber = 0
  /\ rateLimiter = [successCount |-> 0, failureCount |-> 0]
  /\ stats = InitialStats
  /\ failed = 0
  /\ stageLog = <<>>

\* ---- scrapeHotelWiFiReviews, one step at a time ----

\* const page = await this.createStealthPage(), before the try
Crawl_Create ==
  \E h \in DOMAIN crawl :
    /\ crawl[h].pc = "create"
    /\ \/ /\ browser = "launched"
          /\ crawl' = [crawl EXCEPT ![h] = [@ EXCEPT !.pc = "wait", !.page = "open"]]
       \/ crawl' = [crawl EXCEPT ![h] = [@ EXCEPT !.pc = "threw", !.completion = "throw"]]
    /\ UNCHANGED <<program, apiKey, batchSize, mpc, browser, hotelIdx, bpc, batchNumber,
                   rateLimiter, stats, failed>>
    /\ UNCHANGED <<stageLog, nonRunVars>>

\* await this.rateLimiter.wait()
Crawl_Wait ==
  \E h \in DOMAIN crawl :
    /\ crawl[h].pc = "wait"
    /\ crawl' = [crawl EXCEPT ![h] = [@ EXCEPT !.pc = "search"]]
    /\ UNCHANGED <<program, apiKey, batchSize, mpc, browser, hotelIdx, bpc, batchNumber,
                   rateLimiter, stats, failed>>
    /\ UNCHANGED <<stageLog, nonRunVars>>

\* searchHotelOnMaps returns true or throws after its retries
Crawl_Search ==
  \E h \in DOMAIN crawl :
    /\ crawl[h].pc = "search"
    /\ \/ crawl' = [crawl EXCEPT ![h] = [@ EXCEPT !.pc = "navigate"]]
       \/ crawl' = [crawl EXCEPT ![h] = [@ EXCEPT !.pc = "catch", !.failedAt = "search"]]
    /\ UNCHANGED <<program, apiKey, batchSize, mpc, browser, hotelIdx, bpc, batchNumber,
                   rateLimiter, stats, failed>>
    /\ UNCHANGED <<stageLog, nonRunVars>>

\* navigateToReviews returns true or throws after its retries
Crawl_Navigate ==
  \E h \in DOMAIN crawl :
    /\ crawl[h].pc = "navigate"
    /\ \/ crawl' = [crawl EXCEPT ![h] = [@ EXCEPT !.pc = "extract"]]
       \/ crawl' = [crawl EXCEPT ![h] = [@ EXCEPT !.pc = "catch", !.failedAt = "navigate"]]
    /\ UNCHANGED <<program, apiKey, batchSize, mpc, browser, hotelIdx, bpc, batchNumber,
                   rateLimiter, stats, failed>>
    /\ UNCHANGED <<stageLog, nonRunVars>>

\* const reviews = await this.searchWiFiReviews(page): it returns what it
\* collected and does not throw
Crawl_Extract ==
  \E h \in DOMAIN crawl :
    /\ crawl[h].pc = "extract"
    /\ \E n \in FoundCounts(program) :
         crawl' = [crawl EXCEPT ![h] = [@ EXCEPT !.pc = "record", !.n = n]]
    /\ UNCHANGED <<program, apiKey, batchSize, mpc, browser, hotelIdx, bpc, batchNumber,
                   rateLimiter, stats, failed>>
    /\ UNCHANGED <<stageLog, nonRunVars>>

\* Record success based on review count, then return reviews
Crawl_Record ==
  \E h \in DOMAIN crawl :
    /\ crawl[h].pc = "record"
    /\ IF RecordsSuccess(program, crawl[h].n)
         THEN /\ rateLimiter' = [rateLimiter EXCEPT !.successCount = @ + 1]
              /\ crawl' = [crawl EXCEPT ![h] =
                   [@ EXCEPT !.pc = "finally", !.completion = "return", !.recS = @ + 1]]
         ELSE /\ rateLimiter' = [rateLimiter EXCEPT !.failureCount = @ + 1]
              /\ crawl' = [crawl EXCEPT ![h] =
                   [@ EXCEPT !.pc = "finally", !.completion = "return", !.recF = @ + 1]]
    /\ UNCHANGED <<program, apiKey, batchSize, mpc, browser, hotelIdx, bpc, batchNumber,
                   stats, failed>>
    /\ UNCHANGED <<stageLog, nonRunVars>>

\* catch (error) { recordFailure(); return [] }
Crawl_Catch ==
  \E h \in DOMAIN crawl :
    /\ crawl[h].pc = "catch"
    /\ rateLimiter' = [rateLimiter EXCEPT !.failureCount = @ + 1]
    /\ crawl' = [crawl EXCEPT ![h] =
         [@ EXCEPT !.pc = "finally", !.completion = CatchCompletion, !.n = 0,
                   !.recF = @ + 1]]
    /\ UNCHANGED <<program, apiKey, batchSize, mpc, browser, hotelIdx, bpc, batchNumber,
                   stats, failed>>
    /\ UNCHANGED <<stageLog, nonRunVars>>

\* finally { await page.close() }, then the call settles
Crawl_Finally ==
  \E h \in DOMAIN crawl :
    /\ crawl[h].pc = "finally"
    /\ crawl' = [crawl EXCEPT ![h] =
         [@ EXCEPT !.pc = IF crawl[h].completion = "throw" THEN "threw" ELSE "returned",
                   !.page = PageAfterFinally(@)]]
    /\ UNCHANGED <<program, apiKey, batchSize, mpc, browser, hotelIdx, bpc, batchNumber,
                   rateLimiter, stats, failed>>
    /\ UNCHANGED <<stageLog, nonRunVars>>

\* ---- scrapeAllHotels / processAllHotels / runFullCollection ----

\* The statements before the for loop; an exception here reaches the outer
\* catch of the function, which rethrows it
Body_Before ==
  /\ bpc = "before"
  /\ \/ /\ bpc' = "loop"
        /\ hotelIdx' = 0
        /\ failed' = 0
     \/ /\ bpc' = "threw"
        /\ UNCHANGED <<hotelIdx, failed>>
  /\ UNCHANGED <<program, apiKey, batchSize, mpc, browser, crawl, batchNumber, rateLimiter,
                 stats>>
  /\ UNCHANGED <<stageLog, nonRunVars>>

\* for (const hotel of hotels): the next hotel's crawl is called
Body_NextHotel ==
  /\ bpc = "loop"
  /\ hotelIdx < NumHotels(program)
  /\ hotelIdx' = hotelIdx + 1
  /\ crawl' = [crawl EXCEPT ![hotelIdx + 1] = [IdleCrawl EXCEPT !.pc = "create"]]
  /\ stats' = IF program = "singapore"
                THEN [stats EXCEPT !.hotelsCrawled = @ + 1]
                ELSE stats
  /\ bpc' = "scrape"
  /\ stageLog' = <<>>
  /\ UNCHANGED <<program, apiKey, batchSize, mpc, browser, batchNumber, rateLimiter, failed>>
  /\ UNCHANGED nonRunVars

\* The for loop is over; processAllHotels goes on with another batch unless it
\* got fewer hotels than it asked for
Body_LoopEnd ==
  /\ bpc = "loop"
  /\ hotelIdx = NumHotels(program)
  /\ IF program = "pipeline" /\ ~(NumHotels(program) < batchSize)
       THEN /\ batchNumber < MaxBatches
            /\ batchNumber' = batchNumber + 1
            /\ bpc' = "before"
       ELSE /\ batchNumber' = IF program = "pipeline" THEN batchNumber + 1
                                                          ELSE batchNumber
            /\ bpc' = "after"
  /\ UNCHANGED <<program, apiKey, batchSize, mpc, browser, crawl, hotelIdx, rateLimiter,
                 stats, failed>>
  /\ UNCHANGED <<stageLog, nonRunVars>>

\* The crawl of the current hotel has settled and its caller resumes
Hotel_Crawled ==
  /\ bpc = "scrape"
  /\ Awaited(crawl[hotelIdx])
  /\ crawl' = [crawl EXCEPT ![hotelIdx] = Consumed(@)]
  /\ IF crawl[hotelIdx].pc = "threw"
       THEN /\ bpc' = HotelCatch(program)
            /\ failed' = failed + 1
            /\ stats' = IF program = "singapore"
                          THEN [stats EXCEPT !.failedHotels = @ + 1]
                          ELSE stats
            /\ stageLog' = Append(stageLog, "crawlThrew")
       ELSE IF crawl[hotelIdx].n = 0
         THEN /\ bpc' = AfterCrawl(program, 0)
              /\ failed' = failed + 1
              /\ UNCHANGED stats
              /\ stageLog' = Append(stageLog, "noReviews")
         ELSE /\ bpc' = AfterCrawl(program, crawl[hotelIdx].n)
              /\ stageLog' = Append(stageLog, "reviews")
              /\ stats' =
                   CASE program = "pipeline" ->
                          [stats EXCEPT !.totalReviewsCollected = @ + crawl[hotelIdx].n]
                     [] program = "singapore" ->
                          [stats EXCEPT !.totalReviews = @ + crawl[hotelIdx].n]
                     [] OTHER -> stats
              /\ UNCHANGED failed
  /\ UNCHANGED <<program, apiKey, batchSize, mpc, browser, hotelIdx, batchNumber, rateLimiter>>
  /\ UNCHANGED nonRunVars

\* await this.saveReviewsToDatabase(reviews, projectId): it rethrows what the
\* database call throws
Hotel_Save ==
  /\ bpc = "save"
  /\ \/ /\ bpc' = AfterSave(program)
        /\ UNCHANGED failed
        /\ stageLog' = Append(stageLog, "reviewsSaved")
     \/ /\ bpc' = HotelCatch(program)
        /\ failed' = failed + 1
        /\ stageLog' = Append(stageLog, "saveThrew")
  /\ UNCHANGED <<program, apiKey, batchSize, mpc, browser, crawl, hotelIdx, batchNumber,
                 rateLimiter, stats>>
  /\ UNCHANGED nonRunVars

\* const summary = await this.aiProcessor.processReviews(hotel.name, reviews):
\* a summary or null.  processHotel returns false on null; collectHotelData
\* returns true either way and the collector counts a successful hotel
Hotel_AI ==
  /\ bpc = "ai"
  /\ \E o \in HotelOutcomes(costTracker) :
       /\ costTracker' = o.tracker
       /\ stageLog' = Append(stageLog, o.summary)
       /\ bpc' = AfterSummary(program, o.summary)
       /\ CASE program = "pipeline" ->
                 /\ failed' = IF o.summary = "null" THEN failed + 1 ELSE failed
                 /\ UNCHANGED stats
            [] OTHER ->
                 /\ stats' = [stats EXCEPT !.successfulHotels = @ + 1]
                 /\ UNCHANGED failed
  /\ UNCHANGED <<program, apiKey, batchSize, mpc, browser, crawl, hotelIdx, batchNumber,
                 rateLimiter>>
  /\ UNCHANGED <<scrollVars, batchVars, limiterVars, dateVars, speedVars, passVars,
                 fieldVars, retryVars, aiCallVars>>

\* await this.saveSummaryToDatabase(summary), then the counters and the cost
\* of complete-pipeline.ts:129-133
Hotel_SaveSummary ==
  /\ bpc = "saveSummary"
  /\ \/ /\ bpc' = HotelDone(program)
        /\ stats' = [stats EXCEPT !.hotelsProcessed = @ + 1,
                                  !.totalSummariesGenerated = @ + 1,
                                  !.totalCost = getCostSummary.totalCost]
        /\ UNCHANGED failed
        /\ stageLog' = Append(stageLog, "summarySaved")
     \/ /\ bpc' = HotelCatch(program)
        /\ failed' = failed + 1
        /\ UNCHANGED stats
        /\ stageLog' = Append(stageLog, "summaryThrew")
  /\ UNCHANGED <<program, apiKey, batchSize, mpc, browser, crawl, hotelIdx, batchNumber,
                 rateLimiter>>
  /\ UNCHANGED nonRunVars

\* await new Promise(resolve => setTimeout(resolve, 2000))
Hotel_Pause ==
  /\ bpc = "pause"
  /\ bpc' = "loop"
  /\ UNCHANGED <<program, apiKey, batchSize, mpc, browser, crawl, hotelIdx, batchNumber,
                 rateLimiter, stats, failed>>
  /\ UNCHANGED <<stageLog, nonRunVars>>

\* The statements after the loop; an exception here reaches the outer catch
\* of the function, which rethrows it
Body_After ==
  /\ bpc = "after"
  /\ bpc' \in {"returned", "threw"}
  /\ UNCHANGED <<program, apiKey, batchSize, mpc, browser, crawl, hotelIdx, batchNumber,
                 rateLimiter, stats, failed>>
  /\ UNCHANGED <<stageLog, nonRunVars>>

\* ---- main() ----

\* new HotelWiFiScraper() / new CompleteWiFiPipeline() / new
\* SingaporeDataCollector(), before the try
Main_Construct ==
  /\ mpc = "new"
  /\ mpc' = Constructed(program, apiKey)
  /\ UNCHANGED <<program, apiKey, batchSize, browser, crawl, hotelIdx, bpc, batchNumber,
                 rateLimiter, stats, failed>>
  /\ UNCHANGED <<stageLog, nonRunVars>>

\* await scraper.initialize(): chromium.launch resolves or rejects
Main_Initialize ==
  /\ mpc = "initialize"
  /\ \/ /\ browser' = "launched"
        /\ mpc' = "run"
        /\ bpc' = "before"
        /\ batchNumber' = 1
     \/ /\ mpc' = "catch"
        /\ UNCHANGED <<browser, bpc, batchNumber>>
  /\ UNCHANGED <<program, apiKey, batchSize, crawl, hotelIdx, rateLimiter, stats, failed>>
  /\ UNCHANGED <<stageLog, nonRunVars>>

\* The awaited call in the try block settles
Main_BodySettled ==
  /\ mpc = "run"
  /\ bpc \in {"returned", "threw"}
  /\ mpc' = IF bpc = "threw" THEN "catch" ELSE "finally"
  /\ UNCHANGED <<program, apiKey, batchSize, browser, crawl, hotelIdx, bpc, batchNumber,
                 rateLimiter, stats, failed>>
  /\ UNCHANGED <<stageLog, nonRunVars>>

\* catch (error) { log; process.exit(1) }: process.exit ends the process and
\* no further statement runs.  The test script only logs
Main_Catch ==
  /\ mpc = "catch"
  /\ mpc' = AfterCatch(program)
  /\ UNCHANGED <<program, apiKey, batchSize, browser, crawl, hotelIdx, bpc, batchNumber,
                 rateLimiter, stats, failed>>
  /\ UNCHANGED <<stageLog, nonRunVars>>

\* finally { await scraper.close() }: close() closes this.browser if set
Main_Finally ==
  /\ mpc = "finally"
  /\ browser' = IF browser = "launched" THEN "closed" ELSE browser
  /\ mpc' = "done"
  /\ UNCHANGED <<program, apiKey, batchSize, crawl, hotelIdx, bpc, batchNumber,
                 rateLimiter, stats, failed>>
  /\ UNCHANGED <<stageLog, nonRunVars>>

NextRun ==
  \/ Crawl_Create \/ Crawl_Wait \/ Crawl_Search \/ Crawl_Navigate
  \/ Crawl_Extract \/ Crawl_Record \/ Crawl_Catch \/ Crawl_Finally
  \/ Body_Before \/ Body_NextHotel \/ Body_LoopEnd
  \/ Hotel_Crawled \/ Hotel_Save \/ Hotel_AI \/ Hotel_SaveSummary \/ Hotel_Pause
  \/ Body_After
  \/ Main_Construct \/ Main_Initialize \/ Main_BodySettled \/ Main_Catch
  \/ Main_Finally

SpecRun == InitRun /\ [][NextRun]_vars

\* The scripts whose batch driver handles each hotel in its own try block
BatchPrograms == {"scraper", "pipeline", "singapore"}

C5_FailureNeverAbortsBatch ==
  (program \in BatchPrograms /\ bpc \in {"after", "returned", "threw"} /\ failed > 0)
    => hotelIdx = NumHotels(program)

C5_Witness ==
  /\ program = "pipeline"
  /\ failed = 1
  /\ hotelIdx = 2
  /\ bpc = "scrape"
  /\ crawl[2].page = "open"

C8_BrowserClosedOnEveryExit ==
  (program \in ExitingPrograms /\ mpc \in {"done", "exited", "rejected"})
    => browser # "launched"

\* The entries of the stage log before position i
Earlier(i) == {stageLog[j] : j \in 1..(i - 1)}

\* The stages of processHotel that have settled for the current hotel are in
\* order: processReviews after a non-empty crawl, saveSummaryToDatabase after
\* a summary
StagesInOrder ==
  \A i \in DOMAIN stageLog :
    /\ (stageLog[i] \in {"summary", "null"}
          => "reviews" \in Earlier(i) /\ "noReviews" \notin Earlier(i))
    /\ (stageLog[i] \in {"summarySaved", "summaryThrew"}
          => "summary" \in Earlier(i) /\ "null" \notin Earlier(i))

\* A step that increments hotelsProcessed or totalSummariesGenerated
\* increments both by one and is the step in which the saving of the summary
\* resolved
CountedWithSavedSummary ==
  (stats'.hotelsProcessed # stats.hotelsProcessed
     \/ stats'.totalSummariesGenerated # stats.totalSummariesGenerated)
    => /\ stats'.hotelsProcessed = stats.hotelsProcessed + 1
       /\ stats'.totalSummariesGenerated = stats.totalSummariesGenerated + 1
       /\ stageLog' = Append(stageLog, "summarySaved")

\* C26: in CompleteWiFiPipeline.processHotel the stages run in a fixed order
\* per hotel: processReviews settles only after the crawl of that hotel
\* returned a non-empty list, saveSummaryToDatabase only after processReviews
\* returned a summary, and hotelsProcessed and totalSummariesGenerated are
\* incremented only when the summary has been saved.
C26_StagesInOrder ==
  /\ [](program = "pipeline" => StagesInOrder)
  /\ [][program = "pipeline" => CountedWithSavedSummary]_vars

C26_Witness ==
  /\ program = "pipeline"
  /\ stageLog = <<"reviews", "reviewsSaved", "summary", "summarySaved">>
  /\ stats.hotelsProcessed = 2
  /\ stats.totalSummariesGenerated = 2
  /\ failed = 0

\* C27: in CompleteWiFiPipeline.processHotel, whenever the crawl returned at
\* least one review, saveReviewsToDatabase has resolved for them before
\* processReviews starts, so that they have been saved when processReviews
\* returns null and when the saving of the summary throws.
C27_ReviewsSavedBeforeAI ==
  program = "pipeline"
    => /\ (bpc \in {"ai", "saveSummary"}
            => stageLog[Len(stageLog)] \in {"reviewsSaved", "summary"})
       /\ \A i \in DOMAIN stageLog :
            stageLog[i] \in {"summary", "null", "summarySaved", "summaryThrew"}
              => /\ stageLog[1] = "reviews"
                 /\ stageLog[2] = "reviewsSaved"
                 /\ i > 2

C27_Witness ==
  /\ program = "pipeline"
  /\ stageLog = <<"reviews", "reviewsSaved", "null">>
  /\ hotelIdx = 2
  /\ stats.totalReviewsCollected > 0
  /\ stats.hotelsProcessed = 0

\* C28 as stated: when runFullCollection of the SingaporeDataCollector has
\* left its loop, every attempted hotel is a success or a failure in the
\* statistics: hotelsCrawled = successfulHotels + failedHotels.length, and a
\* hotel that just ended with no reviews or with a null summary has put an
\* entry into failedHotels.
C28_EveryHotelCounted ==
  program = "singapore"
    => /\ (bpc \in {"after", "returned", "threw"}
            => stats.hotelsCrawled = stats.successfulHotels + stats.failedHotels)
       /\ (bpc = "loop" /\ stageLog # <<>>
              /\ stageLog[Len(stageLog)] \in {"noReviews", "null"}
            => stats.failedHotels >= 1)

\* C29: when OPENAI_API_KEY is absent, constructing the WiFiReviewProcessor
\* throws, and in CompleteWiFiPipeline and SingaporeDataCollector the error
\* is raised before the browser is launched and before any hotel is crawled:
\* main() never gets past the constructor, the browser is never launched, the
\* batch driver never starts and no crawl is ever called.
C29_MissingKeyFailsBeforeCrawling ==
  (program \in AiPrograms /\ ~apiKey)
    => /\ mpc \in {"new", "rejected"}
       /\ browser = "null"
       /\ bpc = "idle"
       /\ hotelIdx = 0
       /\ \A h \in DOMAIN crawl : crawl[h] = IdleCrawl
       /\ stats = InitialStats

C29_Witness ==
  /\ program \in AiPrograms
  /\ ~apiKey
  /\ mpc = "rejected"
  /\ browser = "null"

-----------------------------------------------------------------------------
(* processReviews of scripts/ai-processor.ts and retry of the utilities    *)

\* A JavaScript value: undefined, null, NaN, a number n/d, or a string
JsVal(t, n, d, s) == [t |-> t, n |-> n, d |-> d, s |-> s]
Undefined == JsVal("undefined", 0, 1, <<>>)
JsNull == JsVal("null", 0, 1, <<>>)
NaN == JsVal("nan", 0, 1, <<>>)
Num(n, d) == JsVal("number", n, d, <<>>)
Str(s) == JsVal("string", 0, 1, s)

\* ToBoolean: undefined, null, NaN, 0 and "" are falsy
Truthy(v) ==
  CASE v.t = "number" -> v.n # 0
    [] v.t = "string" -> v.s # <<>>
    [] OTHER -> FALSE

\* The operator ||
Or_Keep(v, w) == v
Or(v, w) == IF Truthy(v) THEN v ELSE w

\* ToNumber of a string: blank is 0, a decimal numeral is its value, anything
\* else is NaN.  The strings of ScoreInputs carry no sign, fraction or exponent
StringToNumber(s) ==
  LET t == Trim(s)
  IN  IF t = <<>> THEN Num(0, 1)
      ELSE IF \A i \in 1..Len(t) : t[i] \in Digits THEN Num(parseInt(t), 1)
      ELSE NaN

ToNumber(v) ==
  CASE v.t = "number"    -> v
    [] v.t = "string"    -> StringToNumber(v.s)
    [] v.t = "null"      -> Num(0, 1)
    [] v.t = "undefined" -> NaN
    [] v.t = "nan"       -> NaN

\* a < b for numbers n/d with d > 0
Less(a, b) == a.n * b.d < b.n * a.d

\* Math.min and Math.max convert their arguments and return NaN if any is NaN
MathMin(a, b) ==
  LET x == ToNumber(a)
      y == ToNumber(b)
  IN  IF x.t = "nan" \/ y.t = "nan" THEN NaN
      ELSE IF Less(y, x) THEN y ELSE x

MathMax(a, b) ==
  LET x == ToNumber(a)
      y == ToNumber(b)
  IN  IF x.t = "nan" \/ y.t = "nan" THEN NaN
      ELSE IF Less(x, y) THEN y ELSE x

minScore == 1
maxScore == 5
defaultScore == 3
defaultBrowsingScore == 4

\* Math.max(1, Math.min(5, value || default))
Score(value, default) ==
  MathMax(Num(minScore, 1), MathMin(Num(maxScore, 1), Or(value, Num(default, 1))))

\* retry(operation, 3, 2000)
maxAttempts == 3
delayMs == 2000

\* delayMs * attempt, the wait of retry() after a failed attempt
RetryDelay_Flat(n) == delayMs
RetryDelay(n) == delayMs * n

\* Values the model may put in a score field: numbers above, at the ends of,
\* inside and below the range, zero, a negative, non-integers, strings, null,
\* and the field left out
ScoreInputs ==
  { Num(9, 1), Num(5, 1), Num(3, 1), Num(1, 1), Num(0, 1), Num(-2, 1), Num(9, 2),
    Num(1, 2), Str(<<"4">>), Str(<<"h","i","g","h">>), Str(<<"4","/","5">>),
    Str(<<>>), JsNull, Undefined }

\* aiResult.use_case_scores when it is not an object
NoUseCaseScores ==
  [present |-> FALSE, video_calls |-> Undefined, streaming |-> Undefined,
   uploads |-> Undefined, general_browsing |-> Undefined]

\* A JavaScript array of strings, each written as one character
Arr(items) == JsVal("array", 0, 1, items)

\* Array.isArray
IsArray(v) == v.t = "array"

\* Longest array the model returns
MaxListLen == 6

\* Values the model may put in a list field: arrays up to MaxListLen items,
\* and values that are not arrays
ListInputs ==
  { Arr([i \in 1..n |-> DigitChar(i)]) : n \in 0..MaxListLen }
  \cup { Undefined, JsNull, Str(<<"n","o","n","e">>), Num(2, 1) }

ConsistentWord == <<"c","o","n","s","i","s","t","e","n","t">>
VariableWord == <<"v","a","r","i","a","b","l","e">>
UnknownWord == <<"u","n","k","n","o","w","n">>

\* ['consistent', 'variable', 'unknown']
ConsistencyValues == { Str(ConsistentWord), Str(VariableWord), Str(UnknownWord) }

\* Values the model may put in speed_analysis.speed_consistency
ConsistencyInputs ==
  ConsistencyValues
  \cup { Str(<<"f","a","s","t">>), Str(<<"C","o","n","s","i","s","t","e","n","t">>),
         Str(<<>>), Num(1, 1), JsNull, Undefined }

\* aiResult.speed_analysis when it is not an object
NoSpeedAnalysis ==
  [present |-> FALSE, speed_consistency |-> Undefined,
   mentioned_speeds |-> Undefined]

\* The object JSON.parse returns: scores o and u, the list value l in each of
\* the seven list fields, the speed analysis sa
AiResult(o, u, l, sa) ==
  [overall_score |-> o, use_case_scores |-> u,
   positive_highlights |-> l, warnings |-> l, location_quirks |-> l,
   time_patterns |-> l, connection_quirks |-> l, business_traveler_notes |-> l,
   unique_features |-> l, speed_analysis |-> sa]

\* The parsed objects of the model: every score field takes every input value
ScoreResults ==
  UNION { { AiResult(x, NoUseCaseScores, Undefined, NoSpeedAnalysis) }
          \cup { AiResult(x,
                          [present |-> TRUE, video_calls |-> y, streaming |-> x,
                           uploads |-> y, general_browsing |-> x],
                          Undefined, NoSpeedAnalysis) : y \in ScoreInputs }
          : x \in ScoreInputs }

\* The parsed objects in which the list fields vary
ListResults ==
  { AiResult(Num(4, 1), NoUseCaseScores, l, NoSpeedAnalysis) : l \in ListInputs }

\* The parsed objects in which speed_analysis.speed_consistency varies
ConsistencyResults ==
  { AiResult(Num(4, 1), NoUseCaseScores, Arr(<<>>),
             [present |-> TRUE, speed_consistency |-> c,
              mentioned_speeds |-> Undefined]) : c \in ConsistencyInputs }

\* The parsed objects in which speed_analysis.mentioned_speeds varies
MentionedResults ==
  { AiResult(Num(4, 1), NoUseCaseScores, Arr(<<>>),
             [present |-> TRUE, speed_consistency |-> Str(VariableWord),
              mentioned_speeds |-> m]) : m \in ListInputs }

AiResults ==
  ScoreResults \cup ListResults \cup ConsistencyResults \cup MentionedResults

\* JSON.parse of a document that is not an object: every property is undefined
NoFields == AiResult(Undefined, NoUseCaseScores, Undefined, NoSpeedAnalysis)

\* response.usage: absent, or the token counts of the call
Usages == { [present |-> FALSE, prompt_tokens |-> 77, completion_tokens |-> 77],
            [present |-> TRUE, prompt_tokens |-> 900, completion_tokens |-> 250] }

\* What the chat completion resolves to.  content is "absent" when
\* choices[0]?.message?.content is undefined, null or "", "invalid" when it is
\* not JSON, "null" and "scalar" when it is JSON but not an object
Responses ==
  { [content |-> k, aiResult |-> NoFields, usage |-> u] :
      k \in {"absent", "invalid", "null", "scalar"}, u \in Usages }
  \cup { [content |-> "object", aiResult |-> a, usage |-> u] :
           a \in AiResults, u \in Usages }

\* aiResult.use_case_scores?.field
UseCaseScore(aiResult, field) ==
  IF aiResult.use_case_scores.present THEN aiResult.use_case_scores[field]
  ELSE Undefined

\* items.slice(0, k)
Slice_Whole(items, k) == items
Slice(items, k) == SubSeq(items, 1, IF Len(items) < k THEN Len(items) ELSE k)

\* Array.isArray(value) ? value.slice(0, k) : []
ArrayField(value, k) == IF IsArray(value) THEN Slice(value.s, k) ELSE <<>>

maxPositiveHighlights == 3
maxWarnings == 2
maxLocationQuirks == 5
maxTimePatterns == 3
maxConnectionQuirks == 4
maxBusinessNotes == 4
maxUniqueFeatures == 3

\* ['consistent', 'variable', 'unknown'].includes(
\*   aiResult.speed_analysis?.speed_consistency) ? ... : 'unknown'
SpeedConsistency(aiResult) ==
  LET v == IF aiResult.speed_analysis.present
             THEN aiResult.speed_analysis.speed_consistency
             ELSE Undefined
  IN IF v \in ConsistencyValues THEN v ELSE Str(UnknownWord)

\* reviews.filter(r => r.extracted_speed).map(r => r.extracted_speed!)
ExtractedSpeeds(speeds) == SelectSeq(speeds, LAMBDA v : v # 0)

\* Array.isArray(aiResult.speed_analysis?.mentioned_speeds)
\*   ? aiResult.speed_analysis.mentioned_speeds : the reviews' speeds
MentionedSpeeds(aiResult, speeds) ==
  LET v == IF aiResult.speed_analysis.present
             THEN aiResult.speed_analysis.mentioned_speeds
             ELSE Undefined
  IN IF IsArray(v) THEN v.s ELSE ExtractedSpeeds(speeds)

\* The summary object of ai-processor.ts:169-207 for the reviews whose
\* extracted speeds are given
WiFiSummary(aiResult, speeds) ==
  [overall_score |-> Score(aiResult.overall_score, defaultScore),
   positive_highlights |->
     ArrayField(aiResult.positive_highlights, maxPositiveHighlights),
   warnings |-> ArrayField(aiResult.warnings, maxWarnings),
   use_case_scores |->
     [video_calls |-> Score(UseCaseScore(aiResult, "video_calls"), defaultScore),
      streaming |-> Score(UseCaseScore(aiResult, "streaming"), defaultScore),
      uploads |-> Score(UseCaseScore(aiResult, "uploads"), defaultScore),
      general_browsing |->
        Score(UseCaseScore(aiResult, "general_browsing"), defaultBrowsingScore)],
   mentioned_speeds |-> MentionedSpeeds(aiResult, speeds),
   speed_consistency |-> SpeedConsistency(aiResult),
   location_quirks |-> ArrayField(aiResult.location_quirks, maxLocationQuirks),
   time_patterns |-> ArrayField(aiResult.time_patterns, maxTimePatterns),
   connection_quirks |->
     ArrayField(aiResult.connection_quirks, maxConnectionQuirks),
   business_traveler_notes |->
     ArrayField(aiResult.business_traveler_notes, maxBusinessNotes),
   unique_features |-> ArrayField(aiResult.unique_features, maxUniqueFeatures),
   review_count |-> Len(speeds)]

\* The statements after retry() has returned a response, ai-processor.ts:150-224,
\* and the catch block of 226-229: the value processReviews returns
SummaryOf(r, speeds) ==
  IF r.content \in {"absent", "invalid", "null"} THEN JsNull
  ELSE WiFiSummary(r.aiResult, speeds)

\* The tracker with the usage of one response added, ai-processor.ts:155-161
AddUsage(tracker, usage) ==
  [inputTokens |-> tracker.inputTokens + Tokens(usage, "prompt_tokens"),
   outputTokens |-> tracker.outputTokens + Tokens(usage, "completion_tokens"),
   totalCost |-> tracker.totalCost
                   + calculateCost(Tokens(usage, "prompt_tokens"),
                                   Tokens(usage, "completion_tokens"))]

\* Number of reviews handed to processReviews
ReviewCounts == {0, 1, 2}

\* n reviews without an extracted speed
Unmeasured(n) == [i \in 1..n |-> 0]

\* Five reviews of which three mention 150, 90 and 30 Mbps
FiveReviews == <<150, 0, 90, 0, 30>>

\* The reviews handed to processReviews, each by its extracted_speed: none,
\* some and all of them with a speed
ReviewLists ==
  { Unmeasured(n) : n \in ReviewCounts }
  \cup { <<150>>, <<0, 90>>, <<90, 30>>, FiveReviews }

\* processReviews calls made on one processor
MaxCalls == 2

NoCost == [inputTokens |-> 0, outputTokens |-> 0, totalCost |-> 0]

InitAI ==
  /\ ScrollIdle
  /\ RunIdle
  /\ BatchIdle
  /\ LimiterIdle
  /\ DateIdle
  /\ SpeedIdle
  /\ PassIdle
  /\ FieldIdle
  /\ RetryIdle
  /\ aiSpeeds \in ReviewLists
  /\ aiReviews = Len(aiSpeeds)
  /\ apc = "start"
  /\ attempt = 0
  /\ response = <<>>
  /\ aiReturn = <<>>
  /\ costTracker = NoCost
  /\ waits = <<>>
  /\ callFailures = 0
  /\ modelCalls = <<>>
  /\ billed = NoCost
  /\ processed = 1

\* if (reviews.length === 0) return null; otherwise retry() starts and makes
\* its first model call
AI_Start ==
  /\ apc = "start"
  /\ IF aiReviews = 0
       THEN /\ apc' = "returned"
            /\ aiReturn' = JsNull
            /\ UNCHANGED attempt
       ELSE /\ apc' = "call"
            /\ attempt' = 1
            /\ UNCHANGED aiReturn
  /\ UNCHANGED <<aiReviews, aiSpeeds, response, costTracker, waits, callFailures,
                 modelCalls, billed, processed>>
  /\ UNCHANGED nonAiVars

\* One attempt of retry(): the chat completion resolves, retry() returns it,
\* and the rest of processReviews runs to its return
AI_CallResolves ==
  /\ apc = "call"
  /\ \E r \in Responses :
       /\ response' = r
       /\ costTracker' = CostAfter(costTracker, r)
       /\ aiReturn' = SummaryOf(r, aiSpeeds)
       /\ billed' = AddUsage(billed, r.usage)
  /\ modelCalls' = Append(modelCalls, "resolved")
  /\ apc' = "returned"
  /\ UNCHANGED <<aiReviews, aiSpeeds, attempt, waits, callFailures, processed>>
  /\ UNCHANGED nonAiVars

\* One attempt of retry(): the chat completion rejects.  Before the last
\* attempt retry() waits delayMs * attempt and calls again; after it, it
\* throws and the catch block of processReviews returns null
AI_CallRejects ==
  /\ apc = "call"
  /\ callFailures' = callFailures + 1
  /\ modelCalls' = Append(modelCalls, "rejected")
  /\ IF attempt < maxAttempts
       THEN /\ waits' = Append(waits, RetryDelay(attempt))
            /\ attempt' = attempt + 1
            /\ UNCHANGED <<apc, aiReturn>>
       ELSE /\ apc' = "returned"
            /\ aiReturn' = JsNull
            /\ UNCHANGED <<waits, attempt>>
  /\ UNCHANGED <<aiReviews, aiSpeeds, response, costTracker, billed, processed>>
  /\ UNCHANGED nonAiVars

\* The caller hands the next hotel's reviews to the same processor
AI_Again ==
  /\ apc = "returned"
  /\ processed < MaxCalls
  /\ processed' = processed + 1
  /\ aiSpeeds' \in ReviewLists
  /\ aiReviews' = Len(aiSpeeds')
  /\ apc' = "start"
  /\ attempt' = 0
  /\ response' = <<>>
  /\ aiReturn' = <<>>
  /\ waits' = <<>>
  /\ callFailures' = 0
  /\ modelCalls' = <<>>
  /\ UNCHANGED <<costTracker, billed>>
  /\ UNCHANGED nonAiVars

NextAI == AI_Start \/ AI_CallResolves \/ AI_CallRejects \/ AI_Again

SpecAI == InitAI /\ [][NextAI]_vars

\* A score of the summary is a number from 1 to 5
InRange(v) == v.t = "number" /\ minScore * v.d <= v.n /\ v.n <= maxScore * v.d

\* C9: processReviews returns null only when it was given no review or the
\* model call threw on every attempt of retry(); whenever a response was
\* received it returns a summary.
C9_NullOnlyWithoutResponse ==
  (apc = "returned" /\ aiReturn = JsNull)
    => (aiReviews = 0 \/ callFailures = maxAttempts)

\* C10: whatever the model put in overall_score and in the four
\* use_case_scores, each of these fields of a returned summary is a number
\* from 1 to 5.
C10_ScoresInRange ==
  (apc = "returned" /\ aiReturn # JsNull)
    => /\ InRange(aiReturn.overall_score)
       /\ InRange(aiReturn.use_case_scores.video_calls)
       /\ InRange(aiReturn.use_case_scores.streaming)
       /\ InRange(aiReturn.use_case_scores.uploads)
       /\ InRange(aiReturn.use_case_scores.general_browsing)

\* kept is a prefix of given
IsPrefix(kept, given) ==
  /\ Len(kept) <= Len(given)
  /\ kept = SubSeq(given, 1, Len(kept))

\* A list field of the summary against the value the model gave for it
ListKept(kept, given, k) ==
  /\ Len(kept) <= k
  /\ IF IsArray(given) THEN IsPrefix(kept, given.s) ELSE kept = <<>>

\* C11: the list fields of a returned summary hold at most 3
\* positive_highlights, 2 warnings, 5 location_quirks, 3 time_patterns,
\* 4 connection_quirks, 4 business_traveler_notes and 3 unique_features; each
\* is a prefix of the list the model gave, and is empty when the model gave
\* something that is not an array.
C11_ListsCapped ==
  (apc = "returned" /\ aiReturn # JsNull)
    => LET given == response.aiResult
       IN /\ ListKept(aiReturn.positive_highlights, given.positive_highlights, 3)
          /\ ListKept(aiReturn.warnings, given.warnings, 2)
          /\ ListKept(aiReturn.location_quirks, given.location_quirks, 5)
          /\ ListKept(aiReturn.time_patterns, given.time_patterns, 3)
          /\ ListKept(aiReturn.connection_quirks, given.connection_quirks, 4)
          /\ ListKept(aiReturn.business_traveler_notes,
                      given.business_traveler_notes, 4)
          /\ ListKept(aiReturn.unique_features, given.unique_features, 3)

\* The model gave more items than any field keeps, and the summary kept the
\* first five location_quirks and the first two warnings
C11_Witness ==
  /\ apc = "returned"
  /\ aiReturn # JsNull
  /\ IsArray(response.aiResult.location_quirks)
  /\ Len(response.aiResult.location_quirks.s) > maxLocationQuirks
  /\ aiReturn.location_quirks
       = SubSeq(response.aiResult.location_quirks.s, 1, maxLocationQuirks)
  /\ Len(aiReturn.warnings) = maxWarnings


\* The summary's speed_consistency is 'unknown' when the model's value is
\* missing or not one of the three tiers
ConsistencyFallsBack ==
  LET given == response.aiResult
  IN (~given.speed_analysis.present
        \/ given.speed_analysis.speed_consistency \notin ConsistencyValues)
       => aiReturn.speed_consistency = Str(UnknownWord)

\* The summary's scores for the fields the model omitted, with d the value
\* expected for general_browsing
OmittedScoresAre(d) ==
  LET given == response.aiResult
      three == Num(3, 1)
  IN /\ given.overall_score = Undefined
          => aiReturn.overall_score = three
     /\ UseCaseScore(given, "video_calls") = Undefined
          => aiReturn.use_case_scores.video_calls = three
     /\ UseCaseScore(given, "streaming") = Undefined
          => aiReturn.use_case_scores.streaming = three
     /\ UseCaseScore(given, "uploads") = Undefined
          => aiReturn.use_case_scores.uploads = three
     /\ UseCaseScore(given, "general_browsing") = Undefined
          => aiReturn.use_case_scores.general_browsing = d

\* C12: a score field the model omitted gets the default 3 in the summary,
\* for overall_score and for each of the four use-case scores, and a
\* speed_consistency that is missing or not one of consistent, variable,
\* unknown becomes 'unknown'.
C12_MissingFieldsDefault ==
  (apc = "returned" /\ aiReturn # JsNull)
    => (OmittedScoresAre(Num(3, 1)) /\ ConsistencyFallsBack)

\* C12, amended: an omitted overall_score, video_calls, streaming or uploads
\* score becomes 3 and an omitted general_browsing score becomes 4; a
\* speed_consistency that is missing or not one of the three tiers becomes
\* 'unknown'.
C12_DefaultPerField ==
  (apc = "returned" /\ aiReturn # JsNull)
    => (OmittedScoresAre(Num(4, 1)) /\ ConsistencyFallsBack)

\* A summary built from a response that omitted every score and the speed
\* analysis
C12_Witness ==
  /\ apc = "returned"
  /\ aiReturn # JsNull
  /\ response.aiResult.overall_score = Undefined
  /\ ~response.aiResult.use_case_scores.present
  /\ ~response.aiResult.speed_analysis.present
  /\ aiReturn.overall_score = Num(3, 1)
  /\ aiReturn.use_case_scores.general_browsing = Num(4, 1)
  /\ aiReturn.speed_consistency = Str(UnknownWord)

\* C13: processReviews makes at most 3 model calls for a hotel, waits 2000 ms
\* after the first failed call and longer after the second, and a call that
\* returned a response is the last model call for that hotel, whatever the
\* response contains.
C13_RetryBudget ==
  /\ Len(modelCalls) <= 3
  /\ \A i \in 1..Len(modelCalls) :
       modelCalls[i] = "resolved" => i = Len(modelCalls) /\ apc = "returned"
  /\ callFailures >= 1 => (Len(waits) >= 1 /\ waits[1] = 2000)
  /\ callFailures >= 2 => (Len(waits) >= 2 /\ waits[2] > waits[1])
  /\ Len(waits) <= 2

\* Two calls failed, retry() waited 2000 ms and then 4000 ms, and the third
\* call returned a response without content
C13_Witness ==
  /\ apc = "returned"
  /\ modelCalls = <<"rejected", "rejected", "resolved">>
  /\ waits = <<2000, 4000>>
  /\ response.content = "absent"

\* C14: a response whose content is absent or empty counts as a failed
\* attempt and is retried while attempts remain, and a response whose content
\* is not valid JSON or does not follow the schema still yields a summary.
C14_EmptyRetriedMalformedRepaired ==
  (apc = "returned" /\ response # <<>>)
    => /\ response.content = "absent" => Len(modelCalls) = maxAttempts
       /\ response.content \in {"invalid", "null", "scalar", "object"}
            => aiReturn # JsNull

\* C15: after any sequence of processReviews calls the three counters of the
\* cost tracker are the sums of the prompt tokens, the completion tokens and
\* the cost of every model call that returned a response, and getCostSummary
\* reports them.
C15_CostIsSumOverResponses ==
  /\ costTracker = billed
  /\ getCostSummary = billed

\* C30 as stated: every summary processReviews returns has review_count equal
\* to the number of reviews it was given, and whenever at least one of these
\* reviews carries an extracted speed its mentioned_speeds is not empty; it is
\* the list of the reviews' extracted speeds when the model gave no array.
C30_CountAndSpeeds ==
  (apc = "returned" /\ aiReturn # JsNull)
    => /\ aiReturn.review_count = aiReviews
       /\ aiReviews = Len(aiSpeeds)
       /\ (ExtractedSpeeds(aiSpeeds) # <<>> => Len(aiReturn.mentioned_speeds) > 0)
       /\ (~(/\ response.aiResult.speed_analysis.present
              /\ IsArray(response.aiResult.speed_analysis.mentioned_speeds))
            => aiReturn.mentioned_speeds = ExtractedSpeeds(aiSpeeds))

-----------------------------------------------------------------------------
(* processBatchReviews, ai-processor.ts:232-264                            *)

\* Most hotels handed to one batch
MaxBatchHotels == 3

\* setTimeout(resolve, 1000) between two hotels
batchDelayMs == 1000

\* The hotels of a batch, each by the number of its reviews
BatchInputs ==
  UNION { [1..n -> ReviewCounts] : n \in 0..MaxBatchHotels }

\* The responses the model gives in a batch
BatchResponses ==
  { r \in Responses :
      /\ r.usage.present
      /\ \/ r.content \in {"absent", "invalid"}
         \/ /\ r.content = "object"
            /\ r.aiResult \in
                 { AiResult(Num(4, 1), NoUseCaseScores, Undefined, NoSpeedAnalysis),
                   AiResult(Num(9, 1), NoUseCaseScores, Undefined, NoSpeedAnalysis) } }

\* What a whole processReviews call on n reviews leaves behind: the value it
\* returns and the cost tracker.  Without reviews, or when every attempt of
\* the model call rejects, it returns null and the tracker is untouched
ProcessOutcomes(n, tracker) ==
  IF n = 0 THEN { [ret |-> JsNull, tracker |-> tracker] }
  ELSE { [ret |-> JsNull, tracker |-> tracker] }
       \cup { [ret |-> SummaryOf(r, Unmeasured(n)), tracker |-> CostAfter(tracker, r)] :
                r \in BatchResponses }

\* if (summary) summaries.push(summary)
Pushed(list, summary) == IF summary # JsNull THEN Append(list, summary) ELSE list

\* if (i < hotelsWithReviews.length - 1)
WaitsAfter_Always(i, length) == TRUE
WaitsAfter(i, length) == i < length - 1

InitBatch ==
  /\ ScrollIdle
  /\ RunIdle
  /\ AiIdle
  /\ LimiterIdle
  /\ DateIdle
  /\ SpeedIdle
  /\ PassIdle
  /\ FieldIdle
  /\ RetryIdle
  /\ hotelsWithReviews \in BatchInputs
  /\ batchIndex = 0
  /\ summaries = <<>>
  /\ batchPc = "loop"
  /\ batchReturn = <<>>
  /\ outcomes = <<>>
  /\ batchLog = <<>>

\* Loop body up to the push: await this.processReviews(hotelName, reviews).
\* processReviews catches whatever its body throws and returns null, so the
\* catch block of lines 250-253 is never entered
Batch_Process ==
  /\ batchPc = "loop"
  /\ batchIndex < Len(hotelsWithReviews)
  /\ \E o \in ProcessOutcomes(hotelsWithReviews[batchIndex + 1], costTracker) :
       /\ costTracker' = o.tracker
       /\ summaries' = Pushed(summaries, o.ret)
       /\ outcomes' = Append(outcomes, o.ret)
  /\ batchLog' = Append(batchLog, <<"hotel", batchIndex + 1>>)
  /\ batchPc' = "pause"
  /\ UNCHANGED <<hotelsWithReviews, batchIndex, batchReturn>>
  /\ UNCHANGED <<scrollVars, runVars, limiterVars, dateVars, speedVars, passVars, fieldVars, retryVars,
                 aiCallVars>>

\* The wait between two hotels, and i++
Batch_Pause ==
  /\ batchPc = "pause"
  /\ batchLog' = IF WaitsAfter(batchIndex, Len(hotelsWithReviews))
                   THEN Append(batchLog, <<"wait", batchDelayMs>>)
                   ELSE batchLog
  /\ batchIndex' = batchIndex + 1
  /\ batchPc' = "loop"
  /\ UNCHANGED <<hotelsWithReviews, summaries, batchReturn, outcomes>>
  /\ UNCHANGED nonBatchVars

\* The loop has ended: return summaries
Batch_Return ==
  /\ batchPc = "loop"
  /\ batchIndex >= Len(hotelsWithReviews)
  /\ batchReturn' = summaries
  /\ batchPc' = "done"
  /\ UNCHANGED <<hotelsWithReviews, batchIndex, summaries, outcomes, batchLog>>
  /\ UNCHANGED nonBatchVars

NextBatch == Batch_Process \/ Batch_Pause \/ Batch_Return

SpecBatch == InitBatch /\ [][NextBatch]_vars

\* processReviews returned a summary
IsSummary(o) == o # JsNull

\* Hotel 1, a wait of ms, hotel 2, a wait of ms, ... hotel n
InOrderWithWaits(n, ms) ==
  IF n = 0 THEN <<>>
  ELSE [k \in 1..(2 * n - 1) |->
          IF k % 2 = 1 THEN <<"hotel", (k + 1) \div 2>> ELSE <<"wait", ms>>]

\* C16: processBatchReviews handles the hotels one at a time in input order
\* with a wait of 1000 ms between two consecutive hotels and none after the
\* last, goes on after a hotel that gave no summary, and returns the
\* summaries of the hotels that succeeded, in input order.
C16_BatchInOrder ==
  /\ summaries = SelectSeq(outcomes, IsSummary)
  /\ batchPc = "done"
       => /\ batchLog = InOrderWithWaits(Len(hotelsWithReviews), 1000)
          /\ Len(outcomes) = Len(hotelsWithReviews)
          /\ batchReturn = SelectSeq(outcomes, IsSummary)

\* A batch of three hotels of which the second gave no summary although it
\* had reviews: both others are returned, in order
C16_Witness ==
  /\ batchPc = "done"
  /\ Len(hotelsWithReviews) = 3
  /\ hotelsWithReviews[2] > 0
  /\ outcomes[1] # JsNull /\ outcomes[2] = JsNull /\ outcomes[3] # JsNull
  /\ batchReturn = <<outcomes[1], outcomes[3]>>
  /\ outcomes[1] # outcomes[3]

-----------------------------------------------------------------------------
(* RateLimiter, metadata.ts:135-244.  Times are in milliseconds; the delay  *)
(* wait() requires is in hundredths of a millisecond, which is exact for    *)
(* random draws that are multiples of one tenth.                            *)

\* new RateLimiter(minDelaySeconds, maxDelaySeconds)
NewRateLimiter(minDelaySeconds, maxDelaySeconds) ==
  [minDelay |-> minDelaySeconds * 1000, maxDelay |-> maxDelaySeconds * 1000,
   lastRequest |-> 0, successCount |-> 0, failureCount |-> 0,
   requestHistory |-> <<>>]

\* maxDelaySeconds when the constructor is given one argument
defaultMaxDelaySeconds == 12

\* The limiters the scripts construct: RateLimiter(n, n * 2) with n = 6, and
\* RateLimiter(n) with n = 3, 6, 8, 10
ScriptLimiters ==
  { NewRateLimiter(6, 6 * 2) }
  \cup { NewRateLimiter(n, defaultMaxDelaySeconds) : n \in {3, 6, 8, 10} }

\* A scraper constructed with a delay of 12 s or more hands it on as
\* RateLimiter(n), whose minimum is then not below the default maximum
SlowLimiters ==
  { NewRateLimiter(n, defaultMaxDelaySeconds) : n \in {12, 15} }

\* recordSuccess() at time t
recordSuccess(l, t) ==
  LET pushed == Append(l.requestHistory, t)
  IN [l EXCEPT !.successCount = @ + 1,
               !.requestHistory = IF Len(pushed) > 10 THEN Tail(pushed) ELSE pushed]

\* recordFailure()
recordFailure(l) == [l EXCEPT !.failureCount = @ + 1]

\* The three draws of Math.random() in one wait(), in tenths: pattern choice,
\* multiplier, jitter
Draws == [pattern : {0, 5, 9}, multiplier : {0, 7}, jitter : {0, 5, 9}]

\* baseDelay of calculateAdaptiveDelay
BaseDelay_Min(l) == l.minDelay
BaseDelay(l) ==
  LET total == l.successCount + l.failureCount
  IN IF 10 * l.successCount > 8 * total THEN l.minDelay
     ELSE IF 10 * l.successCount > 6 * total THEN (l.minDelay * 12) \div 10
     ELSE IF 10 * l.successCount > 4 * total THEN (l.minDelay * 15) \div 10
     ELSE l.maxDelay

Lower(a, b) == IF a < b THEN a ELSE b
Higher(a, b) == IF a > b THEN a ELSE b

\* calculateAdaptiveDelay() with Math.random() = r / 10
calculateAdaptiveDelay(l, r) ==
  IF l.successCount + l.failureCount = 0 THEN l.minDelay
  ELSE LET baseDelay == BaseDelay(l)
           jitter == (baseDelay * 2 * (r - 5)) \div 100
           adaptiveDelay == baseDelay + jitter
       IN Higher((l.minDelay * 8) \div 10, Lower(adaptiveDelay, l.maxDelay))

\* The multiplier of generateHumanLikeDelay, in hundredths
Multiplier(d) ==
  IF d.pattern <= 3 THEN 80 + d.multiplier * 3
  ELSE IF d.pattern <= 8 THEN 100 + d.multiplier * 3
  ELSE 150 + d.multiplier * 5

\* generateHumanLikeDelay(), in hundredths of a millisecond
generateHumanLikeDelay(l, d) == calculateAdaptiveDelay(l, d.jitter) * Multiplier(d)

\* setTimeout(resolve, waitTime): the delay is truncated to whole
\* milliseconds, and one below 1 becomes 1
TimerMs_None(waitTime) == 0
TimerMs(waitTime) == IF waitTime \div 100 < 1 THEN 1 ELSE waitTime \div 100

\* Date.now() when the limiters are constructed.  It stands for a time since
\* 1970 and is longer than any delay
StartMs == 100000

\* Time that passes between two calls on a limiter
Elapses == {1000, 30000}

\* The draws of the calls of wait() that are followed over time: a quick, a
\* normal and a long pattern
WaitDraws ==
  { [pattern |-> 0, multiplier |-> 7, jitter |-> 9],
    [pattern |-> 5, multiplier |-> 0, jitter |-> 5],
    [pattern |-> 9, multiplier |-> 7, jitter |-> 0] }

\* Time by which a timer fires late
Lateness == {0, 3}

\* Calls of wait() and of recordSuccess() / recordFailure() on one limiter
MaxLimiterWaits == 2
MaxLimiterRecords == 2

\* const now, timeSinceLastRequest, requiredDelay of wait()
WaitLocals(k, now, d) ==
  [limiter |-> k, called |-> now, prev |-> limiters[k].lastRequest,
   since |-> now - limiters[k].lastRequest,
   required |-> generateHumanLikeDelay(limiters[k], d)]

\* if (timeSinceLastRequest < requiredDelay)
Sleeps(w) == w.since * 100 < w.required

\* const waitTime = requiredDelay - timeSinceLastRequest
WaitTime(w) == w.required - w.since * 100

\* A call of wait() that has returned at time t after a timer of ms
Returned(w, ms, t) ==
  [limiter |-> w.limiter, called |-> w.called, prev |-> w.prev,
   since |-> w.since, required |-> w.required, timer |-> ms, returned |-> t]

InitLimiter ==
  /\ ScrollIdle
  /\ RunIdle
  /\ AiIdle
  /\ BatchIdle
  /\ DateIdle
  /\ SpeedIdle
  /\ PassIdle
  /\ FieldIdle
  /\ RetryIdle
  /\ \E l \in ScriptLimiters : limiters = <<l>>
  /\ nowMs = StartMs
  /\ lpc = "idle"
  /\ pending = <<>>
  /\ waitLog = <<>>

\* recordSuccess()
Limiter_RecordSuccess ==
  /\ lpc = "idle"
  /\ \E k \in DOMAIN limiters :
       /\ limiters[k].successCount + limiters[k].failureCount < MaxLimiterRecords
       /\ limiters' = [limiters EXCEPT ![k] = recordSuccess(@, nowMs)]
  /\ UNCHANGED <<nowMs, lpc, pending, waitLog>>
  /\ UNCHANGED nonLimiterVars

\* recordFailure()
Limiter_RecordFailure ==
  /\ lpc = "idle"
  /\ \E k \in DOMAIN limiters :
       /\ limiters[k].successCount + limiters[k].failureCount < MaxLimiterRecords
       /\ limiters' = [limiters EXCEPT ![k] = recordFailure(@)]
  /\ UNCHANGED <<nowMs, lpc, pending, waitLog>>
  /\ UNCHANGED nonLimiterVars

\* wait() up to its await: either it starts a timer, or it sets lastRequest
\* and returns at once
Limiter_WaitCall ==
  /\ lpc = "idle"
  /\ Len(waitLog) < MaxLimiterWaits
  /\ \E k \in DOMAIN limiters, e \in Elapses, d \in WaitDraws :
       LET now == nowMs + e
           w == WaitLocals(k, now, d)
       IN /\ nowMs' = now
          /\ IF Sleeps(w)
               THEN /\ lpc' = "sleeping"
                    /\ pending' = <<w>>
                    /\ UNCHANGED <<limiters, waitLog>>
               ELSE /\ limiters' = [limiters EXCEPT ![k].lastRequest = now]
                    /\ waitLog' = Append(waitLog, Returned(w, 0, now))
                    /\ UNCHANGED <<lpc, pending>>
  /\ UNCHANGED nonLimiterVars

\* The timer of wait() fires, on time or late: this.lastRequest = Date.now()
Limiter_WaitWake ==
  /\ lpc = "sleeping"
  /\ \E late \in Lateness :
       LET w == pending[1]
           ms == TimerMs(WaitTime(w))
           now == w.called + ms + late
       IN /\ nowMs' = now
          /\ limiters' = [limiters EXCEPT ![w.limiter].lastRequest = now]
          /\ waitLog' = Append(waitLog, Returned(w, ms, now))
  /\ lpc' = "idle"
  /\ pending' = <<>>
  /\ UNCHANGED nonLimiterVars

NextLimiter ==
  \/ Limiter_RecordSuccess
  \/ Limiter_RecordFailure
  \/ Limiter_WaitCall
  \/ Limiter_WaitWake

SpecLimiter == InitLimiter /\ [][NextLimiter]_vars

\* The delay wait() required, cut to whole milliseconds
WholeMs(required) == required \div 100

\* C17: when wait() returns, the time since the previous wait() returned is
\* at least the delay computed for this call, and a call made when that much
\* time had already passed returns without sleeping.
C17_WaitKeepsDelay ==
  \A i \in DOMAIN waitLog :
    LET w == waitLog[i]
    IN /\ (w.returned - w.prev) * 100 >= w.required
       /\ w.since * 100 >= w.required => (w.timer = 0 /\ w.returned = w.called)

\* C17, amended: when wait() returns, the time since the previous wait()
\* returned is at least the delay computed for this call cut to whole
\* milliseconds, so less than 1 ms short of it; a call made when the delay
\* had already passed returns without sleeping.
C17_WaitKeepsWholeMs ==
  \A i \in DOMAIN waitLog :
    LET w == waitLog[i]
    IN /\ w.returned - w.prev >= WholeMs(w.required)
       /\ (w.returned - w.prev) * 100 > w.required - 100
       /\ w.since * 100 >= w.required => (w.timer = 0 /\ w.returned = w.called)

\* A second wait() slept on a timer and returned within a millisecond of the
\* delay it had computed, and another returned without sleeping
C17_Witness ==
  /\ Len(waitLog) = 2
  /\ waitLog[1].timer = 0
  /\ waitLog[2].timer > 0
  /\ waitLog[2].prev = waitLog[1].returned
  /\ waitLog[2].returned - waitLog[2].prev = WholeMs(waitLog[2].required)

-----------------------------------------------------------------------------
(* Two RateLimiters of one configuration: the first is told of successes,   *)
(* the second of failures, and then both wait() with the same random draws  *)

\* Calls of recordSuccess() on the first and of recordFailure() on the second
MaxTwinRecords == 10

InitTwin ==
  /\ ScrollIdle
  /\ RunIdle
  /\ AiIdle
  /\ BatchIdle
  /\ DateIdle
  /\ SpeedIdle
  /\ PassIdle
  /\ FieldIdle
  /\ RetryIdle
  /\ \E l \in ScriptLimiters \cup SlowLimiters : limiters = <<l, l>>
  /\ nowMs = StartMs
  /\ lpc = "idle"
  /\ pending = <<>>
  /\ waitLog = <<>>

\* recordSuccess() on the first limiter
Twin_RecordSuccess ==
  /\ waitLog = <<>>
  /\ limiters[1].successCount < MaxTwinRecords
  /\ limiters' = [limiters EXCEPT ![1] = recordSuccess(@, nowMs)]
  /\ UNCHANGED <<nowMs, lpc, pending, waitLog>>
  /\ UNCHANGED nonLimiterVars

\* recordFailure() on the second limiter
Twin_RecordFailure ==
  /\ waitLog = <<>>
  /\ limiters[2].failureCount < MaxTwinRecords
  /\ limiters' = [limiters EXCEPT ![2] = recordFailure(@)]
  /\ UNCHANGED <<nowMs, lpc, pending, waitLog>>
  /\ UNCHANGED nonLimiterVars

\* The first wait() of both limiters, with the same draws.  lastRequest is
\* still 0, so the time since the last request is the time since 1970 and
\* neither call sleeps
Twin_Wait ==
  /\ waitLog = <<>>
  /\ \E d \in Draws :
       LET w1 == WaitLocals(1, nowMs, d)
           w2 == WaitLocals(2, nowMs, d)
       IN /\ ~Sleeps(w1) /\ ~Sleeps(w2)
          /\ waitLog' = <<Returned(w1, 0, nowMs), Returned(w2, 0, nowMs)>>
  /\ limiters' = [k \in DOMAIN limiters |->
                    [limiters[k] EXCEPT !.lastRequest = nowMs]]
  /\ UNCHANGED <<nowMs, lpc, pending>>
  /\ UNCHANGED nonLimiterVars

NextTwin == Twin_RecordSuccess \/ Twin_RecordFailure \/ Twin_Wait

SpecTwin == InitTwin /\ [][NextTwin]_vars

\* The first limiter has had 10 recordSuccess() and the second 10
\* recordFailure(), and both have waited
TenEach ==
  /\ Len(waitLog) = 2
  /\ limiters[1].successCount = 10 /\ limiters[1].failureCount = 0
  /\ limiters[2].successCount = 0 /\ limiters[2].failureCount = 10

\* C18: of two RateLimiters with the same configuration and the same random
\* draws, the one that had 10 recordSuccess() requires a strictly shorter
\* delay in wait() than the one that had 10 recordFailure().
C18_SuccessShortensDelay ==
  TenEach => waitLog[1].required < waitLog[2].required

\* C18, amended: the same, for a configuration whose maximum delay is at
\* least 1.1 times its minimum delay, which holds for every RateLimiter the
\* scripts construct.
C18_SuccessShortensDelayBelowMax ==
  (TenEach /\ 10 * limiters[1].maxDelay >= 11 * limiters[1].minDelay)
    => waitLog[1].required < waitLog[2].required

\* Both limiters were constructed as RateLimiter(8), the jitter draw was 0.9,
\* and the delay after ten successes is the shorter one
C18_Witness ==
  /\ TenEach
  /\ limiters[1].minDelay = 8000 /\ limiters[1].maxDelay = 12000
  /\ limiters[2].minDelay = 8000 /\ limiters[2].maxDelay = 12000
  /\ waitLog[1].required = 8640 * 121
  /\ waitLog[2].required = 12000 * 121

-----------------------------------------------------------------------------
(* The date functions on one text, metadata.ts:298-405                     *)

\* The decimal numeral of n
RECURSIVE Numeral(_)
Numeral(n) ==
  IF n < 10 THEN <<DigitChar(n)>>
  ELSE Numeral(n \div 10) \o <<DigitChar(n % 10)>>

\* The numbers N of the texts 'N unit ago'
RelNumbers == {1, 2, 4, 6, 10, 11, 12, 30, 2010, 2024}

UnitWords == {DayWord, WeekWord, MonthWord, YearWord}

\* 'N unit ago' or 'N units ago'
RelativeText(n, unit, plural) ==
  Numeral(n) \o <<" ">> \o unit \o (IF plural THEN <<"s">> ELSE <<>>)
    \o <<" ", "a", "g", "o">>

RelativeCases ==
  [kind : {"relative"}, n : RelNumbers, unit : UnitWords, plural : BOOLEAN]

\* Texts that no pattern resolves
UnresolvedTexts ==
  { <<>>,
    <<" ", " ", " ">>,
    <<"l","a","s","t"," ","w","e","e","k">>,
    <<"u","n","k","n","o","w","n"," ","d","a","t","e">>,
    <<"E","d","i","t","e","d">>,
    <<"2"," ","h","o","u","r","s"," ","a","g","o">> }

\* The years of the texts that are a year and nothing else
AbsoluteYears == {1999, 2015, 2018, 2019, 2020, 2024}

AbsoluteCases ==
  [kind : {"absolute"}, n : AbsoluteYears, unit : {<<>>}, plural : {FALSE}]

\* The case of a text that was not built from a number and a unit
NoCase == [kind |-> "other", n |-> 0, unit |-> <<>>, plural |-> FALSE]

\* The dates on which the functions are called: mid-month, ends of months,
\* a leap day and the ends of the year
Todays ==
  { [y |-> 2025, m |-> 7, d |-> 15, t |-> 5],
    [y |-> 2025, m |-> 2, d |-> 31, t |-> 5],
    [y |-> 2025, m |-> 4, d |-> 30, t |-> 5],
    [y |-> 2024, m |-> 1, d |-> 29, t |-> 5],
    [y |-> 2025, m |-> 0, d |-> 1, t |-> 5],
    [y |-> 2025, m |-> 11, d |-> 31, t |-> 5] }

\* The window lengths handed to isReviewWithinYears
Windows == {1, 2, 5, 10}

InitDate ==
  /\ ScrollIdle
  /\ RunIdle
  /\ AiIdle
  /\ BatchIdle
  /\ LimiterIdle
  /\ SpeedIdle
  /\ PassIdle
  /\ FieldIdle
  /\ RetryIdle
  /\ \/ /\ dateCase \in RelativeCases
        /\ reviewDateText = RelativeText(dateCase.n, dateCase.unit, dateCase.plural)
     \/ /\ dateCase \in AbsoluteCases
        /\ reviewDateText = Numeral(dateCase.n)
     \/ /\ dateCase = NoCase
        /\ reviewDateText \in UnresolvedTexts
  /\ today \in Todays
  /\ parsedDate = <<>>
  /\ within = <<>>
  /\ dpc = "text"

\* parseGoogleMapsDate(dateText)
Date_Parse ==
  /\ dpc = "text"
  /\ parsedDate' = parseGoogleMapsDate(reviewDateText, today)
  /\ dpc' = "parsed"
  /\ UNCHANGED <<dateCase, reviewDateText, today, within>>
  /\ UNCHANGED nonDateVars

\* isReviewWithinYears(dateText, years), later on the same day
Date_Filter ==
  /\ dpc = "parsed"
  /\ \E years \in Windows, later \in LaterThan(today) :
       within' = [years |-> years,
                  kept |-> isReviewWithinYears(reviewDateText, years, today, later)]
  /\ dpc' = "filtered"
  /\ UNCHANGED <<dateCase, reviewDateText, today, parsedDate>>
  /\ UNCHANGED nonDateVars

NextDate == Date_Parse \/ Date_Filter

SpecDate == InitDate /\ [][NextDate]_vars

\* Leap days before 1 January of year y
LeapsBefore(y) == (y - 1) \div 4 - (y - 1) \div 100 + (y - 1) \div 400

\* Days of year y before month m
RECURSIVE DaysBeforeMonth(_, _)
DaysBeforeMonth(y, m) ==
  IF m = 0 THEN 0 ELSE DaysBeforeMonth(y, m - 1) + DaysInMonth(y, m - 1)

\* The number of a day, counted from a fixed day on
DayNumber(date) ==
  365 * date.y + LeapsBefore(date.y) + DaysBeforeMonth(date.y, date.m) + date.d

\* The number of a month, counted from a fixed month on
MonthNumber(date) == 12 * date.y + date.m

\* The day of the month of `from`, or the last day of the month of `date`
\* where that month is shorter
SameDayOfMonth(date, from) ==
  date.d = Lower(from.d, DaysInMonth(date.y, date.m))

\* date is exactly n of the unit before now
UnitsBefore(date, n, unit, now) ==
  /\ date # NullDate
  /\ date.t = now.t
  /\ CASE unit = DayWord -> DayNumber(now) - DayNumber(date) = n
       [] unit = WeekWord -> DayNumber(now) - DayNumber(date) = 7 * n
       [] unit = MonthWord ->
            MonthNumber(now) - MonthNumber(date) = n /\ SameDayOfMonth(date, now)
       [] unit = YearWord ->
            /\ now.y - date.y = n /\ date.m = now.m
            /\ SameDayOfMonth(date, now)

\* C19: for the text 'N unit ago', with unit day, week, month or year in
\* the singular or the plural and N >= 1, on every current date,
\* parseGoogleMapsDate returns the time exactly N days, 7N days, N calendar
\* months or N calendar years before now.
C19_RelativeExact ==
  (dpc # "text" /\ dateCase.kind = "relative")
    => UnitsBefore(parsedDate, dateCase.n, dateCase.unit, today)

\* C20: for a text that no pattern resolves, such as the empty text, blanks,
\* 'last week' or 'unknown date', parseGoogleMapsDate returns null and
\* isReviewWithinYears returns true for every window length.
C20_UnresolvedKept ==
  (dateCase.kind = "other")
    => /\ dpc # "text" => parsedDate = NullDate
       /\ dpc = "filtered" => within.kept

\* 'last week' gave null and was kept in a window of one year
C20_Witness ==
  /\ dpc = "filtered"
  /\ reviewDateText = <<"l","a","s","t"," ","w","e","e","k">>
  /\ parsedDate = NullDate
  /\ within = [years |-> 1, kept |-> TRUE]

\* The numeral of n reads as a year the absolute pattern takes: 2000..2099
IsYearNumeral(n) == n >= 2000 /\ n <= 2099

\* The calendar day `years` years before now, the last day of the month
\* where that month is shorter
WindowStart(now, years) ==
  [y |-> now.y - years, m |-> now.m,
   d |-> Lower(now.d, DaysInMonth(now.y - years, now.m)), t |-> now.t]

\* n of the unit before now is later than the start of the window
InsideWindow(n, unit, now, years) ==
  CASE unit = DayWord ->
         DayNumber(now) - n > DayNumber(WindowStart(now, years))
    [] unit = WeekWord ->
         DayNumber(now) - 7 * n > DayNumber(WindowStart(now, years))
    [] unit = MonthWord -> n < 12 * years
    [] unit = YearWord -> n < years

\* What the claim says of the case c after the filter answered w
WindowAnswer(c, w, now) ==
  /\ (c.unit = YearWord /\ c.n < w.years) => w.kept
  /\ (c.unit = YearWord /\ c.n > w.years) => ~w.kept
  /\ (c.unit # YearWord /\ InsideWindow(c.n, c.unit, now, w.years)) => w.kept

EndOfYear(year) == [y |-> year, m |-> 11, d |-> 31, t |-> 0]

\* a is earlier than b
DateBefore(a, b) == ~DateGeq(a, b)

\* C22: the absolute year pattern is tried before every relative pattern:
\* for a text that is a 4-digit year Y, before 2000 or not,
\* parseGoogleMapsDate returns 31 December of Y, and isReviewWithinYears is
\* false whenever 31 December of Y is earlier than now minus the window;
\* a text 'N unit ago' whose N is a year from 2000 to 2099 is read as that
\* year.
C22_AbsoluteYearFirst ==
  /\ (dpc # "text" /\ dateCase.kind = "absolute")
       => parsedDate = EndOfYear(dateCase.n)
  /\ (dpc = "filtered" /\ dateCase.kind = "absolute"
        /\ DateBefore(EndOfYear(dateCase.n), WindowStart(today, within.years)))
       => ~within.kept
  /\ (dpc # "text" /\ dateCase.kind = "relative" /\ IsYearNumeral(dateCase.n))
       => parsedDate = EndOfYear(dateCase.n)

-----------------------------------------------------------------------------
(* extractSpeedFromText (metadata.ts:268-295).  The patterns carry the i   *)
(* flag and are matched here on the lower-cased text.  A speed is held in  *)
(* thousandths of a Mbps, so that parseFloat of a decimal is an integer.   *)

\* The character U+2013 of the range pattern
EnDash == "en-dash"

\* (mbps|mb\/s|mbit\/s|mega|mb|mbit)
SpeedUnits == { <<"m","b","p","s">>, <<"m","b","/","s">>,
                <<"m","b","i","t","/","s">>, <<"m","e","g","a">>,
                <<"m","b">>, <<"m","b","i","t">> }

\* \b at position p: exactly one of the characters before and at p is a \w
WordBoundary(s, p) == IsWordAt(s, p - 1) # IsWordAt(s, p)

\* (\d+(?:\.\d+)?) from position j on: the positions just after the number,
\* in the order the engine tries them: with the fraction, then without.
\* A shorter run of digits is always followed by a digit, which none of the
\* patterns accepts after the number.
NumberEnds(s, j) ==
  LET e == DigitsEnd(s, j)
      f == IF e <= Len(s) /\ s[e] = "." THEN DigitsEnd(s, e + 1) ELSE e
  IN IF e = j THEN <<>>
     ELSE IF f > e + 1 THEN <<f, e>>
     ELSE <<e>>

\* \s*(unit)\b from position e on
UnitTail(s, e) ==
  \E u \in SpeedUnits :
    /\ StartsAt(s, WsEnd(s, e), u)
    /\ WordBoundary(s, WsEnd(s, e) + Len(u))

\* \s*[-U+2013]\s*\d+(?:\.\d+)?\s*(unit)\b from position e on
RangeTail(s, e) ==
  LET q == WsEnd(s, e)
      r == WsEnd(s, q + 1)
      ends == NumberEnds(s, r)
  IN /\ q <= Len(s)
     /\ s[q] \in {"-", EnDash}
     /\ \E k \in 1..Len(ends) : UnitTail(s, ends[k])

\* \s*(?:unit)?\b from position e on
OptionalUnitTail(s, e) ==
  \E q \in e..WsEnd(s, e) :
    \/ WordBoundary(s, q)
    \/ \E u \in SpeedUnits : StartsAt(s, q, u) /\ WordBoundary(s, q + Len(u))

\* The words of a phrase, separated by \s+, from position i on: the position
\* just after the phrase, 0 when it is not there
RECURSIVE PhraseEnd(_, _, _)
PhraseEnd(s, i, words) ==
  IF ~StartsAt(s, i, Head(words)) THEN 0
  ELSE IF Len(words) = 1 THEN i + Len(Head(words))
  ELSE IF WsEnd(s, i + Len(Head(words))) = i + Len(Head(words)) THEN 0
  ELSE PhraseEnd(s, WsEnd(s, i + Len(Head(words))), Tail(words))

\* The positions after one of the phrases followed by \s+
AfterPhrase(s, i, phrases) ==
  { WsEnd(s, PhraseEnd(s, i, ph)) : ph \in
      { ph \in phrases : /\ PhraseEnd(s, i, ph) > 0
                         /\ WsEnd(s, PhraseEnd(s, i, ph)) > PhraseEnd(s, i, ph) } }

Around == <<"a","r","o","u","n","d">>
About == <<"a","b","o","u","t">>
Up == <<"u","p">>
To == <<"t","o">>
Over == <<"o","v","e","r">>
More == <<"m","o","r","e">>
Than == <<"t","h","a","n">>
Faster == <<"f","a","s","t","e","r">>
Between == <<"b","e","t","w","e","e","n">>
Got == <<"g","o","t">>
SpeedWord == <<"s","p","e","e","d">>
Was == <<"w","a","s">>
Is == <<"i","s">>
Of == <<"o","f">>
Download == <<"d","o","w","n","l","o","a","d">>
Upload == <<"u","p","l","o","a","d">>
Rate == <<"r","a","t","e">>
Bandwidth == <<"b","a","n","d","w","i","d","t","h">>

\* (?:around|about|up\s+to|over|more\s+than|faster\s+than)
Qualifiers == { <<Around>>, <<About>>, <<Up, To>>, <<Over>>, <<More, Than>>,
                <<Faster, Than>> }

\* (?:got|speed\s+(?:was|is|of)|download\s+(?:speed|rate)|upload\s+(?:speed|rate))
SpeedVerbs == { <<Got>>, <<SpeedWord, Was>>, <<SpeedWord, Is>>, <<SpeedWord, Of>>,
                <<Download, SpeedWord>>, <<Download, Rate>>,
                <<Upload, SpeedWord>>, <<Upload, Rate>> }

\* (?:around\s+|about\s+|up\s+to\s+)
VerbQualifiers == { <<Around>>, <<About>>, <<Up, To>> }

\* (?:of\s+|was\s+|is\s+)
BandwidthLinks == { <<Of>>, <<Was>>, <<Is>> }

\* Where the number of pattern k starts when the pattern is tried at i
NumberStarts(k, s, i) ==
  CASE k = 1 -> {i}
    [] k = 2 -> AfterPhrase(s, i, Qualifiers)
    [] k = 3 -> {i} \cup AfterPhrase(s, i, {<<Between>>})
    [] k = 4 -> AfterPhrase(s, i, SpeedVerbs)
                  \cup UNION { AfterPhrase(s, j, VerbQualifiers) :
                               j \in AfterPhrase(s, i, SpeedVerbs) }
    [] k = 5 -> AfterPhrase(s, i, {<<Bandwidth>>})
                  \cup UNION { AfterPhrase(s, j, BandwidthLinks) :
                               j \in AfterPhrase(s, i, {<<Bandwidth>>}) }

\* What pattern k asks for after its number
PatternTail(k, s, e) ==
  CASE k \in {1, 2, 5} -> UnitTail(s, e)
    [] k = 3 -> RangeTail(s, e)
    [] k = 4 -> OptionalUnitTail(s, e)

\* The captures match[1] that pattern k can make when tried at position i:
\* <<j, e>> for the characters j..e-1
CapturesAt(k, s, i) ==
  { <<j, NumberEnds(s, j)[n]>> : <<j, n>> \in
      { <<j, n>> \in NumberStarts(k, s, i) \X (1..2) :
          /\ n <= Len(NumberEnds(s, j))
          /\ PatternTail(k, s, NumberEnds(s, j)[n]) } }

\* text.match(pattern)[1]: the capture of the leftmost match, with the
\* fraction when that matches; <<>> when the pattern matches nowhere
Capture(k, s) ==
  LET hits == {i \in 1..Len(s) : CapturesAt(k, s, i) # {}}
  IN IF hits = {} THEN <<>>
     ELSE LET i == CHOOSE i \in hits : \A h \in hits : i <= h
              c == CHOOSE c \in CapturesAt(k, s, i) :
                     \A d \in CapturesAt(k, s, i) : c[2] >= d[2]
          IN SubSeq(s, c[1], c[2] - 1)

\* 10^n
RECURSIVE Pow10(_)
Pow10(n) == IF n = 0 THEN 1 ELSE 10 * Pow10(n - 1)

\* parseFloat of digits with an optional fraction of up to three digits, in
\* thousandths
parseFloat(num) ==
  LET e == DigitsEnd(num, 1)
      frac == SubSeq(num, e + 1, Lower(Len(num), e + 3))
  IN parseInt(SubSeq(num, 1, e - 1)) * 1000
       + parseInt(frac) * Pow10(3 - Len(frac))

patternCount == 5
maxSpeed == 10000

\* if (speed > 0 && speed <= 10000)
SpeedInRange(speed) == speed > 0 /\ speed <= maxSpeed * 1000

\* The null the function returns
NoSpeed == -1

\* for (const pattern of patterns) from pattern k on
RECURSIVE SpeedFrom(_, _)
SpeedFrom(k, s) ==
  IF k > patternCount THEN NoSpeed
  ELSE IF Capture(k, s) # <<>> /\ SpeedInRange(parseFloat(Capture(k, s)))
    THEN parseFloat(Capture(k, s))
    ELSE SpeedFrom(k + 1, s)

extractSpeedFromText(text) == SpeedFrom(1, LowerCase(text))

\* The texts the function is called on are a lead, a number, a gap, a unit
\* and a trail, any of which may be empty
SpeedLeads ==
  { <<>>,
    <<"G","o","t"," ","a","r","o","u","n","d"," ">>,
    <<"g","o","t"," ">>,
    <<"s","p","e","e","d"," ","w","a","s"," ">>,
    <<"u","p"," ","t","o"," ">>,
    <<"b","a","n","d","w","i","d","t","h"," ","o","f"," ">>,
    <<"b","e","t","w","e","e","n"," ">>,
    <<"r","o","o","m"," ">>,
    <<"2","0","0","0","0"," ","m","b",","," ","s","p","e","e","d"," ","w","a","s"," ">>,
    <<"0","m","b","p","s"," ","t","h","e","n"," ","a","b","o","u","t"," ">> }

SpeedNumbers ==
  { <<"1","5","0">>, <<"2","0">>, <<"0">>, <<"1","0","0","0","0">>,
    <<"1","0","0","0","0",".","5">>, <<"2","0","0","0","0">>,
    <<"2","5",".","5">>,
    <<"2","0","-","3","0">>,
    <<"5","0"," ",EnDash," ","1","0","0">> }

SpeedGaps == { <<>>, <<" ">> }

SpeedSuffixes ==
  { <<>>, <<"M","b","p","s">>, <<"m","b","p","s">>, <<"M","b","/","s">>,
    <<"m","b","i","t">>, <<"m","e","g","a">>, <<"m","b","i","t","s">>,
    <<"G","b">> }

SpeedTrails ==
  { <<>>,
    <<" ","d","o","w","n","l","o","a","d"," ","s","p","e","e","d">>,
    <<" ","o","n"," ","f","l","o","o","r"," ","2">> }

SpeedCases ==
  [lead : SpeedLeads, number : SpeedNumbers, gap : SpeedGaps,
   unit : SpeedSuffixes, trail : SpeedTrails]

SpeedTextOf(c) == c.lead \o c.number \o c.gap \o c.unit \o c.trail

InitSpeed ==
  /\ ScrollIdle
  /\ RunIdle
  /\ AiIdle
  /\ BatchIdle
  /\ LimiterIdle
  /\ DateIdle
  /\ PassIdle
  /\ FieldIdle
  /\ RetryIdle
  /\ speedCase \in SpeedCases
  /\ speedText = SpeedTextOf(speedCase)
  /\ speedReturn = <<>>
  /\ xpc = "text"

\* extractSpeedFromText(text)
Speed_Extract ==
  /\ xpc = "text"
  /\ speedReturn' = extractSpeedFromText(speedText)
  /\ xpc' = "returned"
  /\ UNCHANGED <<speedCase, speedText>>
  /\ UNCHANGED nonSpeedVars

NextSpeed == Speed_Extract

SpecSpeed == InitSpeed /\ [][NextSpeed]_vars

\* The number of the case is a range a-b
IsRangeNumber(num) == \E k \in 1..Len(num) : num[k] \in {"-", EnDash}

\* The number before the dash of a range
LowerBound(num) == SubSeq(num, 1, DigitsEnd(num, 1) - 1)

\* The unit of the case is one of the bandwidth units, whole
IsBandwidthUnit(c) == LowerCase(c.unit) \in SpeedUnits /\ c.trail = <<>>

\* C23: extractSpeedFromText returns the lower bound of a range mention (20
\* for '20-30 Mbps'), 150 for 'Got around 150 Mbps download speed' and null
\* for 'room 150 on floor 2', whose numbers carry no unit and no speed verb.
C23_SpeedExamples ==
  xpc = "returned" =>
    /\ (speedCase.lead \in {<<>>, <<"b","e","t","w","e","e","n"," ">>}
          /\ IsRangeNumber(speedCase.number) /\ IsBandwidthUnit(speedCase))
         => speedReturn = parseFloat(LowerBound(speedCase.number))
    /\ speedText = <<"G","o","t"," ","a","r","o","u","n","d"," ","1","5","0"," ",
                     "M","b","p","s"," ","d","o","w","n","l","o","a","d"," ",
                     "s","p","e","e","d">>
         => speedReturn = 150 * 1000
    /\ speedText = <<"r","o","o","m"," ","1","5","0"," ","o","n"," ",
                     "f","l","o","o","r"," ","2">>
         => speedReturn = NoSpeed

\* The patterns that match the text somewhere
MatchingPatterns(s) == {k \in 1..patternCount : Capture(k, s) # <<>>}

\* The number captured by the first pattern, in list order, that matches
FirstMatch(s) ==
  parseFloat(Capture(CHOOSE k \in MatchingPatterns(s) :
                       \A h \in MatchingPatterns(s) : k <= h, s))

\* C24: extractSpeedFromText returns null or a value v with 0 < v <= 10000;
\* the value is the one of the first pattern, in list order, that matches
\* the text, and when that first match is out of range the result is null:
\* no later pattern supplies a value.
C24_FirstMatchWins ==
  xpc = "returned" =>
    /\ speedReturn = NoSpeed \/ SpeedInRange(speedReturn)
    /\ IF MatchingPatterns(LowerCase(speedText)) = {} THEN speedReturn = NoSpeed
       ELSE IF SpeedInRange(FirstMatch(LowerCase(speedText)))
         THEN speedReturn = FirstMatch(LowerCase(speedText))
         ELSE speedReturn = NoSpeed

-----------------------------------------------------------------------------
(* One pass of the inner loop body of searchOptimizedWiFiReviews           *)
(* (optimized-scraper.ts:531-670), one step per group of lookups           *)

\* A text of 60 characters without a Wi-Fi keyword
TextLongNoKeyword == Pad(60)

LabelFourStars == <<"4"," ","s","t","a","r","s">>
LabelBackslashD == <<"\\","d","d">>

\* The elements a pass is made on: what the text, date, name and rating
\* selectors find in them
PassElements ==
  [name : {<<NameAnn>>, <<None>>},
   text : {<<TextLong>>, <<TextLongApos>>, <<TextPlain>>, <<TextNoKeyword>>,
           <<TextLongNoKeyword>>, <<None>>},
   date : {<<DateTwoYears>>, <<DateSixYears>>, <<None>>},
   rating : {<<LabelFourStars>>, <<LabelBackslashD>>, <<None>>}]

\* ratingText.match(/(\\d+)/): the pattern is a backslash followed by one or
\* more letters d
RatingMatches(label) ==
  \E i \in 1..(Len(label) - 1) : label[i] = "\\" /\ label[i + 1] = "d"

\* The rating loop (optimized-scraper.ts:626-638): the first selector whose
\* aria-label matches gives parseInt of a text that starts with a backslash,
\* which is NaN; 0 when none matches
RECURSIVE RatingOf(_)
RatingOf(cands) ==
  IF cands = <<>> THEN Num(0, 1)
  ELSE IF Head(cands) # None /\ RatingMatches(Head(cands)) THEN NaN
  ELSE RatingOf(Tail(cands))

\* reviews.push({...}) of optimized-scraper.ts:649-657
OptReview(reviewerName, rating, reviewText, reviewDate, extractedSpeed) ==
  [reviewer_name |-> sanitizeString(reviewerName),
   rating |-> rating,
   review_text |-> sanitizeString(reviewText),
   review_date |-> sanitizeString(reviewDate),
   extracted_speed |-> IF extractedSpeed = NoSpeed THEN Undefined
                       ELSE Num(extractedSpeed, 1000)]

\* The two `continue` of optimized-scraper.ts:556-564
GatesPassed(reviewText) ==
  wifiKeywordsTest(reviewText) /\ ~(Len(reviewText) < optMinTextLength)

\* Where the body goes after the text lookup
AfterText_Always(passed) == "date"
AfterText(passed) == IF passed THEN "date" ELSE "done"

NoLocals == [reviewText |-> <<>>, reviewDate |-> <<>>, reviewerName |-> Anonymous,
             rating |-> Num(0, 1)]

\* The reviews collected before the pass: none, or the review of Ann the
\* pass may find again
PassReviewLists ==
  { <<>>,
    <<OptReview(NameAnn, Num(0, 1), TextLong, DateTwoYears, NoSpeed)>> }

InitPass ==
  /\ ScrollIdle
  /\ RunIdle
  /\ AiIdle
  /\ BatchIdle
  /\ LimiterIdle
  /\ DateIdle
  /\ SpeedIdle
  /\ FieldIdle
  /\ RetryIdle
  /\ passElement \in PassElements
  /\ passReviews \in PassReviewLists
  /\ passLocals = NoLocals
  /\ ppc = "text"
  /\ lookups = <<>>
  /\ passPushed = <<>>

\* STEP 1 and the two gates: optimized-scraper.ts:534-564
Pass_Text ==
  /\ ppc = "text"
  /\ \E reviewText \in {LongestText(passElement.text, <<>>)} :
       /\ passLocals' = [passLocals EXCEPT !.reviewText = reviewText]
       /\ ppc' = AfterText(GatesPassed(reviewText))
  /\ lookups' = Append(lookups, "text")
  /\ UNCHANGED <<passElement, passReviews, passPushed>>
  /\ UNCHANGED nonPassVars

\* STEP 2 and the date filter: optimized-scraper.ts:566-595
Pass_Date ==
  /\ ppc = "date"
  /\ \E reviewDate \in {FirstNonBlank(passElement.date, <<>>)} :
     \E now \in NowDates : \E later \in LaterThan(now) :
       /\ passLocals' = [passLocals EXCEPT !.reviewDate = reviewDate]
       /\ ppc' = IF reviewDate # <<>>
                    /\ ~isReviewWithinYears(reviewDate, targetYears, now, later)
                  THEN "done" ELSE "name"
  /\ lookups' = Append(lookups, "date")
  /\ UNCHANGED <<passElement, passReviews, passPushed>>
  /\ UNCHANGED nonPassVars

\* STEP 3, the name: optimized-scraper.ts:597-616
Pass_Name ==
  /\ ppc = "name"
  /\ passLocals' =
       [passLocals EXCEPT !.reviewerName = FirstNonBlank(passElement.name, Anonymous)]
  /\ ppc' = "rating"
  /\ lookups' = Append(lookups, "name")
  /\ UNCHANGED <<passElement, passReviews, passPushed>>
  /\ UNCHANGED nonPassVars

\* The rating, the speed and the push: optimized-scraper.ts:618-666
Pass_Rating ==
  /\ ppc = "rating"
  /\ \E rating \in {RatingOf(passElement.rating)} :
     \E rec \in {OptReview(passLocals.reviewerName, rating, passLocals.reviewText,
                           passLocals.reviewDate,
                           extractSpeedFromText(passLocals.reviewText))} :
       /\ passLocals' = [passLocals EXCEPT !.rating = rating]
       /\ IF isDuplicate(passReviews, passLocals.reviewerName, passLocals.reviewText)
            THEN UNCHANGED <<passReviews, passPushed>>
            ELSE /\ passReviews' = Append(passReviews, rec)
                 /\ passPushed' = Append(passPushed, rec)
  /\ ppc' = "done"
  /\ lookups' = Append(lookups, "rating")
  /\ UNCHANGED passElement
  /\ UNCHANGED nonPassVars

NextPass == Pass_Text \/ Pass_Date \/ Pass_Name \/ Pass_Rating

SpecPass == InitPass /\ [][NextPass]_vars

\* The text the text selectors find in an element passes both gates
ElementQualifies(el) ==
  LET reviewText == LongestText(el.text, <<>>)
  IN wifiKeywordsTest(reviewText) /\ Len(reviewText) >= 50

AllLookups == <<"text", "date", "name", "rating">>

\* C25: in a pass of searchOptimizedWiFiReviews the date, name and rating of
\* an element are looked up only after its text matched the Wi-Fi keywords
\* and has at least 50 characters, in that order after the text; an element
\* that fails either gate gets no further lookup and yields no record.
C25_GatesBeforeExtraction ==
  /\ IsPrefix(lookups, AllLookups)
  /\ Len(lookups) > 1 => ElementQualifies(passElement)
  /\ (ppc # "text" /\ ~ElementQualifies(passElement))
       => ppc = "done" /\ lookups = <<"text">> /\ passPushed = <<>>

\* An element whose text passed both gates was looked up in full and gave a
\* record
C25_Witness ==
  /\ ppc = "done"
  /\ ElementQualifies(passElement)
  /\ lookups = AllLookups
  /\ Len(passPushed) = 1

-----------------------------------------------------------------------------
(* The field lookups of the inner loop body of searchWiFiReviews            *)
(* (scraper.ts:1116-1199): name, rating, text and date, in that order      *)

Blank == <<" ", " ">>

LabelFiveStars == <<"5"," ","s","t","a","r","s">>
LabelRated == <<"R","a","t","e","d">>

\* What the three name selectors find: the first one alone, the last one
\* alone, a blank node before a name, two names, nothing
NameFinds ==
  { <<NameAnn, None, None>>, <<None, None, NameONeil>>, <<Blank, NameAnn, None>>,
    <<NameAnn, NameONeil, None>>, <<None, None, None>> }

\* What the three rating selectors find, by aria-label
RatingFinds ==
  { <<LabelFourStars, None, None>>, <<LabelRated, LabelFiveStars, None>>,
    <<LabelFourStars, LabelFiveStars, None>>, <<None, None, None>> }

\* What the four text selectors find: one text, a short text before a longer
\* one, a long text before a shorter one
TextFinds ==
  { <<TextPlain, None, None, None>>, <<TextShort, None, TextPlain, None>>,
    <<TextPlain, TextShort, None, None>> }

\* What the three date selectors find
DateFinds ==
  { <<DateTwoYears, None, None>>, <<Blank, DateSixYears, None>>,
    <<None, None, None>> }

FieldElements ==
  [name : NameFinds, rating : RatingFinds, text : TextFinds, date : DateFinds]

\* ratingText.match(/(\d+)/)?.[1]: the first run of digits, <<>> when the
\* label has no digit or the attribute is missing
FirstDigitRun(label) ==
  LET at == {i \in 1..Len(label) : label[i] \in Digits}
  IN IF label = None \/ at = {} THEN <<>>
     ELSE LET i == CHOOSE k \in at : \A j \in at : k <= j
          IN SubSeq(label, i, DigitsEnd(label, i) - 1)

\* The rating loop (scraper.ts:1145-1157): the first selector whose
\* aria-label holds digits gives parseInt of the first run; 0 when none does
RECURSIVE EnhRatingOf(_)
EnhRatingOf(cands) ==
  IF cands = <<>> THEN 0
  ELSE IF FirstDigitRun(Head(cands)) # <<>> THEN parseInt(FirstDigitRun(Head(cands)))
  ELSE EnhRatingOf(Tail(cands))

InitialLocals ==
  [reviewerName |-> Anonymous, rating |-> 0, reviewText |-> <<>>,
   reviewDate |-> <<>>]

InitField ==
  /\ ScrollIdle
  /\ RunIdle
  /\ AiIdle
  /\ BatchIdle
  /\ LimiterIdle
  /\ DateIdle
  /\ SpeedIdle
  /\ PassIdle
  /\ RetryIdle
  /\ fieldElement \in FieldElements
  /\ fieldLocals = InitialLocals
  /\ fpc = "name"

\* scraper.ts:1116-1135
Field_Name ==
  /\ fpc = "name"
  /\ fieldLocals' =
       [fieldLocals EXCEPT !.reviewerName = FirstNonBlank(fieldElement.name, Anonymous)]
  /\ fpc' = "rating"
  /\ UNCHANGED fieldElement
  /\ UNCHANGED nonFieldVars

\* scraper.ts:1137-1157
Field_Rating ==
  /\ fpc = "rating"
  /\ fieldLocals' = [fieldLocals EXCEPT !.rating = EnhRatingOf(fieldElement.rating)]
  /\ fpc' = "text"
  /\ UNCHANGED fieldElement
  /\ UNCHANGED nonFieldVars

\* scraper.ts:1159-1178
Field_Text ==
  /\ fpc = "text"
  /\ fieldLocals' =
       [fieldLocals EXCEPT !.reviewText = LongestText(fieldElement.text, <<>>)]
  /\ fpc' = "date"
  /\ UNCHANGED fieldElement
  /\ UNCHANGED nonFieldVars

\* scraper.ts:1180-1199
Field_Date ==
  /\ fpc = "date"
  /\ fieldLocals' =
       [fieldLocals EXCEPT !.reviewDate = FirstNonBlank(fieldElement.date, <<>>)]
  /\ fpc' = "done"
  /\ UNCHANGED fieldElement
  /\ UNCHANGED nonFieldVars

NextField == Field_Name \/ Field_Rating \/ Field_Text \/ Field_Date

SpecField == InitField /\ [][NextField]_vars

\* The candidates of a field that matched an element, in selector order
Matched(cands) == SelectSeq(cands, LAMBDA c : c # None)

\* The value of a text field read from the first selector that matched
FromFirstMatch(cands, default) ==
  IF Matched(cands) = <<>> THEN default
  ELSE FirstNonBlank(<<Head(Matched(cands))>>, default)

\* C31 as stated: for the name, the rating, the text and the date of a review
\* element the selectors are tried in list order and the value of the field
\* is read from the first selector that matches an element; a later selector
\* never changes it.
C31_FirstMatchingSelectorWins ==
  fpc = "done"
    => /\ fieldLocals.reviewerName = FromFirstMatch(fieldElement.name, Anonymous)
       /\ fieldLocals.reviewDate = FromFirstMatch(fieldElement.date, <<>>)
       /\ fieldLocals.reviewText = FromFirstMatch(fieldElement.text, <<>>)
       /\ fieldLocals.rating
            = IF Matched(fieldElement.rating) = <<>> THEN 0
              ELSE EnhRatingOf(<<Head(Matched(fieldElement.rating))>>)

-----------------------------------------------------------------------------
(* detectNetworkConditions, calculateAdaptiveTimeouts and                   *)
(* retryWithExponentialBackoff of the enhanced scraper (scraper.ts:771-879) *)
(* as searchHotelOnMaps and navigateToReviews use them                      *)

fastBelowMs == 500
mediumBelowMs == 1500
stableBelowMs == 2000
testTimeoutMs == 5000
backoffUnitMs == 1000
maxBackoffMs == 10000
jitterRangeMs == 1000
retryCap == 6

\* Load times of the network test around every threshold
LoadTimes == {100, 499, 500, 1499, 1500, 1999, 2000, 4999}

\* Math.random() * 1000, in whole milliseconds: the ends and the middle
Jitters == {0, 500, jitterRangeMs - 1}

\* scraper.ts:780-792: the conditions after a test that loaded
Detected(t) ==
  [connectionSpeed |-> IF t < fastBelowMs THEN "fast"
                       ELSE IF t < mediumBelowMs THEN "medium" ELSE "slow",
   latency |-> t,
   isStable |-> t < stableBelowMs]

\* scraper.ts:796-803: the conditions after a test that threw
Undetected == [connectionSpeed |-> "medium", latency |-> 1000, isStable |-> FALSE]

\* baseTimeouts[connectionSpeed].maxRetries
BaseRetries(speed) ==
  CASE speed = "fast" -> 3 [] speed = "medium" -> 4 [] speed = "slow" -> 5

\* calculateAdaptiveTimeouts().maxRetries
AdaptiveMaxRetries(nc) ==
  IF nc.isStable THEN BaseRetries(nc.connectionSpeed)
  ELSE IF BaseRetries(nc.connectionSpeed) + 1 < retryCap
    THEN BaseRetries(nc.connectionSpeed) + 1 ELSE retryCap

RECURSIVE Pow2(_)
Pow2(n) == IF n = 0 THEN 1 ELSE 2 * Pow2(n - 1)

\* Math.min(1000 * Math.pow(2, attempt - 1), 10000)
BackoffBase_Uncapped(n) == backoffUnitMs * Pow2(n - 1)
BackoffBase(n) ==
  IF backoffUnitMs * Pow2(n - 1) < maxBackoffMs
    THEN backoffUnitMs * Pow2(n - 1) ELSE maxBackoffMs

InitRetry ==
  /\ ScrollIdle
  /\ RunIdle
  /\ AiIdle
  /\ BatchIdle
  /\ LimiterIdle
  /\ DateIdle
  /\ SpeedIdle
  /\ PassIdle
  /\ FieldIdle
  /\ loadTime \in LoadTimes
  /\ networkConditions = [connectionSpeed |-> "medium", latency |-> 0,
                          isStable |-> TRUE]
  /\ retryStep = "search"
  /\ retryMax = 0
  /\ retryAttempt = 0
  /\ retryPc = "detect"
  /\ retryWaits = <<>>
  /\ retryThrown = 0

\* searchHotelOnMaps up to its first attempt (scraper.ts:883-886): the
\* network test loads in loadTime or throws, the timeouts are computed and
\* retryWithExponentialBackoff starts
Retry_Detect ==
  /\ retryPc = "detect"
  /\ networkConditions' \in {Detected(loadTime), Undetected}
  /\ retryMax' = AdaptiveMaxRetries(networkConditions')
  /\ retryAttempt' = 1
  /\ retryPc' = "attempt"
  /\ UNCHANGED <<loadTime, retryStep, retryWaits, retryThrown>>
  /\ UNCHANGED nonRetryVars

\* return await operation()
Retry_Resolves ==
  /\ retryPc = "attempt"
  /\ retryPc' = "returned"
  /\ UNCHANGED <<loadTime, networkConditions, retryStep, retryMax, retryAttempt,
                 retryWaits, retryThrown>>
  /\ UNCHANGED nonRetryVars

\* The catch block of scraper.ts:859-875: the last attempt rethrows, any
\* other one sleeps baseDelay + jitter and the loop goes on
Retry_Throws ==
  /\ retryPc = "attempt"
  /\ retryThrown' = retryThrown + 1
  /\ IF retryAttempt = retryMax
       THEN /\ retryPc' = "threw"
            /\ UNCHANGED <<retryAttempt, retryWaits>>
       ELSE /\ \E jitter \in Jitters :
                 retryWaits' = Append(retryWaits,
                                      [base |-> BackoffBase(retryAttempt),
                                       jitter |-> jitter])
            /\ retryAttempt' = retryAttempt + 1
            /\ UNCHANGED retryPc
  /\ UNCHANGED <<loadTime, networkConditions, retryStep, retryMax>>
  /\ UNCHANGED nonRetryVars

\* navigateToReviews up to its first attempt (scraper.ts:982-984), called
\* when searchHotelOnMaps has returned: the timeouts are computed again from
\* the conditions the search detected
Retry_Navigate ==
  /\ retryPc = "returned"
  /\ retryStep = "search"
  /\ retryStep' = "navigate"
  /\ retryMax' = AdaptiveMaxRetries(networkConditions)
  /\ retryAttempt' = 1
  /\ retryPc' = "attempt"
  /\ retryWaits' = <<>>
  /\ retryThrown' = 0
  /\ UNCHANGED <<loadTime, networkConditions>>
  /\ UNCHANGED nonRetryVars

NextRetry == Retry_Detect \/ Retry_Resolves \/ Retry_Throws \/ Retry_Navigate

SpecRetry == InitRetry /\ [][NextRetry]_vars

\* C32: the search step and the reviews-tab step are each attempted at most
\* maxRetries times, maxRetries being 3, 4 or 5 for a fast, medium or slow
\* network and one more, at most 6, when the estimate is unstable; after
\* failed attempt k < maxRetries the wait is min(1000 * 2^(k-1), 10000) ms
\* plus a jitter below 1000 ms, and the last failed attempt throws without a
\* wait.
C32_BoundedBackoff ==
  retryPc # "detect"
    => /\ retryMax = (CASE networkConditions.connectionSpeed = "fast" -> 3
                        [] networkConditions.connectionSpeed = "medium" -> 4
                        [] networkConditions.connectionSpeed = "slow" -> 5)
                     + (IF networkConditions.isStable THEN 0 ELSE 1)
       /\ retryMax \in 3..6
       /\ retryAttempt \in 1..retryMax
       /\ retryThrown <= retryMax
       /\ retryAttempt = Len(retryWaits) + 1
       /\ Len(retryWaits) = IF retryPc = "threw" THEN retryThrown - 1 ELSE retryThrown
       /\ (retryPc = "threw" => retryThrown = retryMax)
       /\ \A k \in DOMAIN retryWaits :
            /\ k < retryMax
            /\ retryWaits[k].base
                 = (IF k <= 4 THEN 1000 * Pow2(k - 1) ELSE 10000)
            /\ retryWaits[k].jitter >= 0
            /\ retryWaits[k].jitter < 1000

\* The reviews-tab step on a slow, unstable network failed six times: five
\* waits, the fifth with the capped base of 10 seconds
C32_Witness ==
  /\ retryStep = "navigate"
  /\ retryPc = "threw"
  /\ retryMax = 6
  /\ retryThrown = 6
  /\ Len(retryWaits) = 5
  /\ retryWaits[4].base = 8000
  /\ retryWaits[5].base = 10000

\* What the date text of a collected record resolves to
ResolvedDate(r) == parseGoogleMapsDate(r.review_date, clock)

\* The date is on or after the calendar day targetYears years before the call
InTargetWindow(d) == DayNumber(d) >= DayNumber(WindowStart(clock, targetYears))

\* C33: every record the enhanced searchWiFiReviews collects and returns has
\* a date text that cannot be resolved or resolves to a time not earlier than
\* 5 years before the call; no review with a resolvable older date is
\* returned.
C33_ReturnedWithinWindow ==
  /\ \A k \in DOMAIN reviews :
       ResolvedDate(reviews[k]) = NullDate \/ InTargetWindow(ResolvedDate(reviews[k]))
  /\ \A k \in DOMAIN result :
       ResolvedDate(result[k]) = NullDate \/ InTargetWindow(ResolvedDate(result[k]))

\* A page with a review of two years ago and a Wi-Fi review of six years ago:
\* the first was returned, the second was not
C33_Witness ==
  /\ spc = "returned"
  /\ Len(page) = 2
  /\ page[1] = Element(NameAnn, TextPlain, DateTwoYears)
  /\ page[2] = Element(None, TextPlain, DateSixYears)
  /\ Len(result) = 1
  /\ result[1].review_date = DateTwoYears


-----------------------------------------------------------------------------
\* The limiter of a scraper built as HotelWiFiScraper(6)
SixToTwelve(l) == l.minDelay = 6 * 1000 /\ l.maxDelay = 12 * 1000

\* C34: for a RateLimiter with minimum 6 s and maximum 12 s, the delay that
\* wait() requires since the previous request is always between 6 and 12
\* seconds, whatever the history of successes and failures and whatever the
\* random draws.
C34_DelayBetweenMinAndMax ==
  \A i \in DOMAIN waitLog :
    SixToTwelve(limiters[waitLog[i].limiter]) =>
      /\ waitLog[i].required >= 6 * 1000 * 100
      /\ waitLog[i].required <= 12 * 1000 * 100


-----------------------------------------------------------------------------
\* The scripts that crawl with the enhanced HotelWiFiScraper
EnhancedPrograms == {"scraper", "pipeline", "singapore"}

EnhancedRun == program \in EnhancedPrograms

\* Calls of recordSuccess() and recordFailure() made by one crawl
Recorded(c) == c.recS + c.recF

\* The crawls that make their call of recordSuccess() or recordFailure() in
\* this step
RecordingNow == { h \in DOMAIN crawl : Recorded(crawl[h]) = 0 /\ Recorded(crawl'[h]) = 1 }

\* A crawl that has not settled its outcome has recorded nothing; one that
\* has, after its page was created, has recorded once, and a success exactly
\* when it returns a list that is not empty
RecordedOnce(c) ==
  /\ c.pc \in {"idle", "create", "wait", "search", "navigate", "extract",
               "record", "catch"} => Recorded(c) = 0
  /\ c.page = "none" => Recorded(c) = 0
  /\ (c.pc = "finally" \/ (Settled(c) /\ c.page # "none")) =>
       /\ Recorded(c) = 1
       /\ c.recS = 1 <=> (c.completion = "return" /\ c.n > 0)

\* The counters of the limiter grow by the calls made in this step
CountersFollow ==
  /\ Cardinality(RecordingNow) <= 1
  /\ rateLimiter'.successCount + rateLimiter'.failureCount =
       rateLimiter.successCount + rateLimiter.failureCount + Cardinality(RecordingNow)

\* C35: a call of scrapeHotelWiFiReviews that got past page creation makes
\* exactly one call of recordSuccess() or recordFailure(): none before it
\* settles its outcome, one from then on, recordSuccess() exactly when the
\* list it returns is not empty; and the limiter's successCount +
\* failureCount grows by one with each such call and at no other time.
C35_OneRecordPerCrawl ==
  /\ [](EnhancedRun => \A h \in DOMAIN crawl : RecordedOnce(crawl[h]))
  /\ [][EnhancedRun => CountersFollow]_vars

\* The second crawl of a run returned a non-empty list after the first had
\* failed: one success and one failure are recorded
C35_Witness ==
  /\ program = "scraper"
  /\ \E h \in DOMAIN crawl :
       /\ crawl[h].pc = "returned"
       /\ crawl[h].n > 0
       /\ crawl[h].recS = 1 /\ crawl[h].recF = 0
  /\ rateLimiter = [successCount |-> 1, failureCount |-> 1]


-----------------------------------------------------------------------------
\* processAllHotels is inside the for loop over the hotels of a batch
InBatch == bpc \in {"loop", "scrape", "save", "ai", "saveSummary", "pause"}

\* Calls of processHotel made so far for hotel h: every batch is the same
\* list, so one call in each earlier batch, and one in this batch once the
\* loop has come to h
TimesProcessed(h) == IF h <= hotelIdx THEN batchNumber ELSE batchNumber - 1

\* C36: in a run of processAllHotels(batchSize), every batch has at most
\* batchSize hotels and no hotel is processed more than once, so the loop ends
\* after the batch that is shorter than batchSize.
C36_NoHotelTwice ==
  (program = "pipeline" /\ InBatch) =>
    /\ NumHotels(program) <= batchSize
    /\ \A h \in 1..NumHotels(program) : TimesProcessed(h) <= 1


-----------------------------------------------------------------------------
\* processAllHotels has left its while loop and prints the final report
FinalReport == program = "pipeline" /\ bpc = "after"

\* C37: when processAllHotels prints its final report, stats.totalCost is the
\* cumulative cost of the AI processor, the calls made for hotels that failed
\* afterwards included, and stats.hotelsProcessed equals
\* stats.totalSummariesGenerated.
C37_ReportedCostIsCumulative ==
  FinalReport =>
    /\ stats.totalCost = getCostSummary.totalCost
    /\ stats.hotelsProcessed = stats.totalSummariesGenerated


-----------------------------------------------------------------------------
\* The inputs of the batch for which processReviews returned a summary, in
\* the order of the loop: the summary's hotel_id is reviews[0].hotel_id of
\* that input
Summarised == SelectSeq([k \in 1..Len(outcomes) |-> k], LAMBDA k : outcomes[k] # JsNull)

\* C38: the list processBatchReviews returns is aligned with its input: the
\* i-th summary of the result was made from the reviews of the i-th input
\* hotel.
C38_ResultAlignedWithInput ==
  batchPc = "done" =>
    \A i \in DOMAIN batchReturn : Summarised[i] = i


-----------------------------------------------------------------------------
\* The aria-label of the rating node of the element of the pass
PassRatingLabel == passElement.rating[1]

\* C39: in the optimized scraper, when the aria-label of the rating node of a
\* review element contains digits, the rating of the record is the integer
\* value of the first run of digits; the rating is 0 only when there is no
\* rating node or its label has no digits.
C39_RatingFromFirstDigits ==
  (ppc = "done" /\ lookups = AllLookups) =>
    /\ FirstDigitRun(PassRatingLabel) # <<>> =>
         passLocals.rating = Num(parseInt(FirstDigitRun(PassRatingLabel)), 1)
    /\ passLocals.rating = Num(0, 1) => FirstDigitRun(PassRatingLabel) = <<>>


-----------------------------------------------------------------------------
\* The date text is 'N years ago' and the window is N years long
AtWindowBoundary ==
  /\ dateCase \in RelativeCases
  /\ dateCase.unit = YearWord
  /\ dateCase.n = within.years

\* C40: at the window boundary isReviewWithinYears is deterministic: for the
\* text 'N years ago' and a window of N years the answer of a call is the
\* answer of every other call made with the same text on the same day,
\* whatever time passes between the clock read of parseGoogleMapsDate and the
\* clock read of the cutoff.
C40_BoundaryIsDeterministic ==
  (dpc = "filtered" /\ AtWindowBoundary) =>
    \A later \in LaterThan(today) :
      within.kept = isReviewWithinYears(reviewDateText, within.years, today, later)

=============================================================================
